---- MODULE Spec2Model ----
(***************************************************************************)
(* Verification model of taint-analysis/scripts/run_taint_audit.py:        *)
(* the flow-correlation / evidence-scoring core (build_backward_flows,     *)
(* build_forward_flows, scan_authz_model, build_findings,                  *)
(* build_attack_chains) and the incremental cache wrapped around it by     *)
(* main().                                                                 *)
(*                                                                         *)
(* Source text is abstracted line by line: a line is named by an entry of  *)
(* a small catalogue (LineFeat) that records which of the script's regular *)
(* expression tables match it and which identifiers extract_identifiers    *)
(* returns for it.  A file is a sequence of such lines.                    *)
(***************************************************************************)
EXTENDS Integers, Sequences, FiniteSets, TLC

\* ------------------------------------------------------------------ bounds
MaxSinks == 2
MaxEntries == 1
\* runs of main() in a behaviour, and how much the environment may do
MaxRuns == 3
MaxFaults == 1
MaxEdits == 1
MaxAltArgs == 1
\* largest score handed to the scoring functions on their own
MaxScore == 110
\* longest findings list handed to build_attack_chains on its own
MaxFindings == 3
MaxSources == 3
MaxFlowSinks == 13
MaxFlowEntries == 2

\* ------------------------------------------------------- generic helpers
Min(a, b) == IF a < b THEN a ELSE b
Max(a, b) == IF a > b THEN a ELSE b
Take(s, n) == SubSeq(s, 1, Min(n, Len(s)))
InSeq(x, s) == \E i \in 1..Len(s) : s[i] = x
SeqsUpTo(S, n) == UNION {[1..k -> S] : k \in 0..n}
Bijections(S) == {f \in [S -> 1..Cardinality(S)] : \A a, b \in S : a # b => f[a] # f[b]}

\* ------------------------------------------------- the script's constants
DEFAULT_KINDS == <<"cmd", "path", "query", "template", "ssrf", "deser", "memory", "authz">>

SINK_TO_KIND(cat) ==
    CASE cat = "exec" -> "cmd"
      [] cat = "eval" -> "cmd"
      [] cat = "template" -> "template"
      [] cat = "sql" -> "query"
      [] cat = "deser" -> "deser"
      [] cat = "file_write" -> "path"
      [] cat = "network" -> "ssrf"
      [] cat = "memory" -> "memory"
      [] cat = "dangerous_cfg" -> "authz"
      [] OTHER -> "unknown"

\* Which pattern tables match a line, and what extract_identifiers yields.
\*   def    : name captured by the first matching FUNC_DEF_PATTERNS entry
\*   calls  : names matched by CALL_PATTERNS minus KEYWORDS, in line order
\*   ids    : extract_identifiers(line) as a set (length > 2, not a keyword)
\*   text   : line.strip() is non-empty
\*   san, guard, authz : some SANITIZER_ / GUARD_ / AUTHZ_PATTERNS entry matches
\*   risky  : the risky_call pattern of build_forward_flows matches
\*   entry  : category of the first entry_scan.py rule that matches ("" none)
\*   sink   : category of the first sink_scan.py rule that matches ("" none)
\* Catalogue (the text each name stands for):
\*   "blank" ""                    "def"   "def run(rq):"
\*   "src"   "cmd = os.environ"    "sink"  "os.system(cmd)"
\*   "san"   "cmd = quote(cmd)"    "guard" "assert ok"
\*   "authz" "# rbac"              "brace" "}"
Line(d, c, i, t, s, g, a, r, e, k) ==
    [def |-> d, calls |-> c, ids |-> i, text |-> t, san |-> s, guard |-> g,
     authz |-> a, risky |-> r, entry |-> e, sink |-> k]

LineFeat(t) ==
    CASE t = "def"   -> Line("run", <<"run">>, {"run"}, TRUE, FALSE, FALSE, FALSE, FALSE, "", "")
      [] t = "src"   -> Line("", <<>>, {"cmd", "environ"}, TRUE, FALSE, FALSE, FALSE, FALSE, "env_cfg", "")
      [] t = "sink"  -> Line("", <<"system">>, {"system", "cmd"}, TRUE, FALSE, FALSE, FALSE, TRUE, "", "exec")
      [] t = "san"   -> Line("", <<"quote">>, {"cmd", "quote"}, TRUE, TRUE, FALSE, FALSE, FALSE, "", "")
      [] t = "guard" -> Line("", <<>>, {"assert"}, TRUE, FALSE, TRUE, FALSE, FALSE, "", "")
      [] t = "authz" -> Line("", <<>>, {"rbac"}, TRUE, FALSE, FALSE, TRUE, FALSE, "", "")
      [] t = "brace" -> Line("", <<>>, {}, TRUE, FALSE, FALSE, FALSE, FALSE, "", "")
      [] OTHER       -> Line("", <<>>, {}, FALSE, FALSE, FALSE, FALSE, FALSE, "", "")

\* Repo-relative paths of the model, in os.walk order; FileRank is the
\* order of str(file) used as a sort key.
FileOrder == <<"a.py", "b.py">>
FileNames == {FileOrder[i] : i \in 1..Len(FileOrder)}
FileRank(f) == CASE f = "a.py" -> 1 [] f = "b.py" -> 2 [] OTHER -> 0

NoHit == [file |-> "", line |-> 0, category |-> "", severity |-> "", snippet |-> {}]

\* ------------------------------------------------------------ file access
\* fsys : file name -> [present, readable, lines, mtime]; a missing or
\* unreadable file raises OSError and reads as the empty list.
read_file_lines(fsys, rel) ==
    IF rel \in DOMAIN fsys /\ fsys[rel].present /\ fsys[rel].readable
    THEN fsys[rel].lines ELSE <<>>

enclosing_function(lines, line_no) ==
    LET top == Min(Max(line_no - 1, 0), Max(Len(lines) - 1, 0)) + 1
        ds == {i \in 1..Min(top, Len(lines)) : LineFeat(lines[i]).def # ""}
    IN IF ds = {} THEN "<global>"
       ELSE LineFeat(lines[CHOOSE i \in ds : \A j \in ds : j <= i]).def

nearby_lines(lines, center, radius) ==
    Max(1, center - radius) .. Min(Len(lines), center + radius)

RECURSIVE SetToSortedSeq(_)
SetToSortedSeq(S) ==
    IF S = {} THEN <<>>
    ELSE LET m == CHOOSE x \in S : \A y \in S : x <= y
         IN <<m>> \o SetToSortedSeq(S \ {m})

\* variant: among equal distances the later hit comes first
find_nearby_sources_LastOnTie(entries, rel_file, sink_line, depth) ==
    LET window == Max(80, 80 * depth)
        Dist(i) == IF entries[i].line >= sink_line THEN entries[i].line - sink_line
                   ELSE sink_line - entries[i].line
        cand == {i \in 1..Len(entries) : entries[i].file = rel_file /\ Dist(i) <= window}
        Before(i, j) == Dist(i) < Dist(j) \/ (Dist(i) = Dist(j) /\ i > j)
        RECURSIVE Ordered(_)
        Ordered(S) == IF S = {} THEN <<>>
                      ELSE LET m == CHOOSE x \in S : \A y \in S \ {x} : Before(x, y)
                           IN <<entries[m]>> \o Ordered(S \ {m})
    IN Take(Ordered(cand), 5)

find_nearby_sources(entries, rel_file, sink_line, depth) ==
    LET window == Max(80, 80 * depth)
        Dist(i) == IF entries[i].line >= sink_line THEN entries[i].line - sink_line
                   ELSE sink_line - entries[i].line
        cand == {i \in 1..Len(entries) : entries[i].file = rel_file /\ Dist(i) <= window}
        \* stable sort by distance: key (dist, original position)
        Before(i, j) == Dist(i) < Dist(j) \/ (Dist(i) = Dist(j) /\ i < j)
        RECURSIVE Ordered(_)
        Ordered(S) == IF S = {} THEN <<>>
                      ELSE LET m == CHOOSE x \in S : \A y \in S \ {x} : Before(x, y)
                           IN <<entries[m]>> \o Ordered(S \ {m})
    IN Take(Ordered(cand), 5)

\* calls index as the list of (name, file, line) in insertion order;
\* calls_index.get(name, []) is the sub-list with that name.
RECURSIVE LineCalls(_, _, _, _)
LineCalls(rel, ln, names, k) ==
    IF k > Len(names) THEN <<>>
    ELSE <<[name |-> names[k], file |-> rel, line |-> ln]>> \o LineCalls(rel, ln, names, k + 1)

\* the calls of lines lo..hi in line order (split in halves to keep the
\* evaluation shallow on long files)
RECURSIVE RangeCalls(_, _, _, _)
RangeCalls(rel, lines, lo, hi) ==
    IF lo > hi THEN <<>>
    ELSE IF lo = hi THEN LineCalls(rel, lo, LineFeat(lines[lo]).calls, 1)
    ELSE LET mid == (lo + hi) \div 2
         IN RangeCalls(rel, lines, lo, mid) \o RangeCalls(rel, lines, mid + 1, hi)

FileCalls(rel, lines, ln) == RangeCalls(rel, lines, ln, Len(lines))

RECURSIVE index_functions(_, _, _)
index_functions(fs, files, k) ==
    IF k > Len(files) THEN <<>>
    ELSE FileCalls(files[k], read_file_lines(fs, files[k]), 1) \o index_functions(fs, files, k + 1)

find_callers(func_name, calls_index, max_items) ==
    Take(SelectSeq(calls_index, LAMBDA c : c.name = func_name), max_items)

collect_sanitizers_and_guards(lines, line_no) ==
    [sanitizers |-> SetToSortedSeq({ln \in nearby_lines(lines, line_no, 8) : LineFeat(lines[ln]).san}),
     guards |-> SetToSortedSeq({ln \in nearby_lines(lines, line_no, 8) : LineFeat(lines[ln]).guard})]

kind_from_sink(sink) == SINK_TO_KIND(sink.category)

\* ------------------------------------------------- build_backward_flows
\* variant: the severity plays no part in the order of the sink hits
SinkPriority_Flat(s) == 1

SinkPriority(s) == IF s.severity = "high" THEN 0 ELSE 1

SinkLess(a, b) ==
    \/ SinkPriority(a) < SinkPriority(b)
    \/ /\ SinkPriority(a) = SinkPriority(b)
       /\ \/ FileRank(a.file) < FileRank(b.file)
          \/ FileRank(a.file) = FileRank(b.file) /\ a.line < b.line

\* sorted() is stable: x goes after every element that is not greater.
InsertSink(acc, x) ==
    LET k == CHOOSE i \in 1..(Len(acc) + 1) :
                 /\ \A j \in 1..(i - 1) : ~SinkLess(x, acc[j])
                 /\ (i = Len(acc) + 1 \/ SinkLess(x, acc[i]))
    IN SubSeq(acc, 1, k - 1) \o <<x>> \o SubSeq(acc, k, Len(acc))

RECURSIVE SortSinks(_, _, _)
SortSinks(sinks, k, acc) ==
    IF k > Len(sinks) THEN acc ELSE SortSinks(sinks, k + 1, InsertSink(acc, sinks[k]))

prioritized(sinks) == SortSinks(sinks, 1, <<>>)

\* variant: no fallback to the first source hit of the run
PickSource_WindowOnly(entries, rel, line_no, depth) ==
    LET near_sources == find_nearby_sources(entries, rel, line_no, depth)
    IN IF near_sources # <<>> THEN near_sources[1] ELSE NoHit

PickSource(entries, rel, line_no, depth) ==
    LET near_sources == find_nearby_sources(entries, rel, line_no, depth)
    IN IF near_sources # <<>> THEN near_sources[1]
       ELSE IF entries # <<>> THEN entries[1] ELSE NoHit

SrcIds(fs, source) ==
    IF source = NoHit THEN {}
    ELSE LET source_line == read_file_lines(fs, source.file)
         IN IF source_line # <<>> /\ 0 < source.line /\ source.line <= Len(source_line)
            THEN LineFeat(source_line[source.line]).ids
            ELSE source.snippet

SinkLineHasText(lines, line_no) ==
    0 < line_no /\ line_no <= Len(lines) /\ LineFeat(lines[line_no]).text

SinkIds(lines, sink) ==
    IF SinkLineHasText(lines, sink.line) THEN LineFeat(lines[sink.line]).ids ELSE sink.snippet

\* The set whose iteration order becomes variable_chain: the overlap when
\* there is one, the sink identifiers otherwise.
ChainIds(fs, entries, depth, sink) ==
    LET lines == read_file_lines(fs, sink.file)
        src_ids == SrcIds(fs, PickSource(entries, sink.file, sink.line, depth))
        sink_ids == SinkIds(lines, sink)
    IN IF src_ids \cap sink_ids # {} THEN src_ids \cap sink_ids ELSE sink_ids

\* Iteration order of a Python set of str: fixed by the interpreter's hash
\* seed, modelled as a ranking of the identifiers.
SetOrder(seed, S) ==
    LET RECURSIVE Ord(_)
        Ord(T) == IF T = {} THEN <<>>
                  ELSE LET m == CHOOSE x \in T : \A y \in T : seed[x] <= seed[y]
                       IN <<m>> \o Ord(T \ {m})
    IN Ord(S)

VariableChain(fs, entries, depth, sink, seed) ==
    LET lines == read_file_lines(fs, sink.file)
        src_ids == SrcIds(fs, PickSource(entries, sink.file, sink.line, depth))
        sink_ids == SinkIds(lines, sink)
        overlap == SetOrder(seed, src_ids \cap sink_ids)
    IN IF overlap # <<>> THEN Take(overlap, 6) ELSE Take(SetOrder(seed, sink_ids), 4)

CallerFrames(callers) ==
    [k \in 1..Len(callers) |-> [file |-> callers[k].file, func |-> "<callsite>", line |-> callers[k].line]]

CallerEvidence(callers) ==
    [k \in 1..Len(callers) |-> [role |-> "call", file |-> callers[k].file, line |-> callers[k].line]]

MakeFlow(fs, entries, calls_index, depth, seed, i, sink) ==
    LET rel == sink.file
        line_no == sink.line
        lines == read_file_lines(fs, rel)
        near_sources == find_nearby_sources(entries, rel, line_no, depth)
        source == PickSource(entries, rel, line_no, depth)
        sink_func == enclosing_function(lines, line_no)
        callers == find_callers(sink_func, calls_index, Max(1, depth))
        sg == collect_sanitizers_and_guards(lines, line_no)
    IN [flow_id |-> i,
        kind |-> kind_from_sink(sink),
        severity |-> sink.severity,
        sink |-> sink,
        source |-> source,
        function_stack |-> <<[file |-> rel, func |-> sink_func, line |-> line_no]>> \o CallerFrames(callers),
        variable_chain |-> VariableChain(fs, entries, depth, sink, seed),
        guards |-> sg.guards,
        sanitizers |-> sg.sanitizers,
        evidence |-> <<[role |-> "sink", file |-> rel, line |-> line_no]>>
                     \o (IF source # NoHit
                         THEN <<[role |-> "source", file |-> source.file, line |-> source.line]>>
                         ELSE <<>>)
                     \o CallerEvidence(callers),
        notes |-> (IF near_sources = <<>> THEN <<"no_source_in_window">> ELSE <<>>)
                  \o (IF callers = <<>> THEN <<"no_callers">> ELSE <<>>)
                  \o (IF sg.sanitizers # <<>> THEN <<"sanitizer_present">> ELSE <<>>)
                  \o (IF sg.guards # <<>> THEN <<"guard_present">> ELSE <<>>)]

\* variant: the enabled kinds play no part
FlowSkipped_FileOnly(fs, kinds, sink) == read_file_lines(fs, sink.file) = <<>>

\* variant: a sink whose file gives no lines still becomes a flow
FlowSkipped_KindOnly(fs, kinds, sink) == ~InSeq(kind_from_sink(sink), kinds)

FlowSkipped(fs, kinds, sink) ==
    \/ ~InSeq(kind_from_sink(sink), kinds)
    \/ read_file_lines(fs, sink.file) = <<>>

RECURSIVE BackwardLoop(_, _, _, _, _, _, _, _)
BackwardLoop(fs, pri, entries, calls_index, depth, kinds, seed, i) ==
    IF i > Len(pri) THEN <<>>
    ELSE (IF FlowSkipped(fs, kinds, pri[i]) THEN <<>>
          ELSE <<MakeFlow(fs, entries, calls_index, depth, seed, i, pri[i])>>)
         \o BackwardLoop(fs, pri, entries, calls_index, depth, kinds, seed, i + 1)

build_backward_flows(fs, sinks, entries, calls_index, depth, kinds, seed) ==
    BackwardLoop(fs, prioritized(sinks), entries, calls_index, depth, kinds, seed, 1)

\* identifiers whose relative set order can show up in some variable_chain
ChainUniverse(fs, sinks, entries, depth) ==
    UNION {ChainIds(fs, entries, depth, sinks[k]) : k \in 1..Len(sinks)}

\* -------------------------------------------------- build_forward_flows
\* variant: every source hit is a representative
picked_by_category_EveryHit(entries) == entries

picked_by_category(entries) ==
    LET first == {i \in 1..Len(entries) :
                     \A j \in 1..(i - 1) : entries[j].category # entries[i].category}
    IN [k \in 1..Cardinality(first) |-> entries[SetToSortedSeq(first)[k]]]

ForwardOf(fs, sinks, depth, kinds, source, idx) ==
    LET rel == source.file
        line_no == source.line
        lines == read_file_lines(fs, rel)
        window == Max(80, 120 * depth)
        start == line_no
        end == Min(Len(lines), line_no + window)
        local_sinks == SelectSeq(sinks, LAMBDA s : /\ s.file = rel
                                                   /\ start <= s.line /\ s.line <= end
                                                   /\ InSeq(kind_from_sink(s), kinds))
        risky == SetToSortedSeq({ln \in start..end : LineFeat(lines[ln]).risky})
        unknown_calls == [k \in 1..Len(risky) |-> [file |-> rel, line |-> risky[k]]]
    IN [flow_id |-> idx,
        source |-> source,
        candidate_sinks |-> Take(local_sinks, 8),
        unknown_risky_calls |-> Take(unknown_calls, 8)]

build_forward_flows(fs, entries, sinks, depth, kinds) ==
    LET reps == SelectSeq(picked_by_category(entries),
                          LAMBDA e : read_file_lines(fs, e.file) # <<>>)
    IN [k \in 1..Len(reps) |-> ForwardOf(fs, sinks, depth, kinds, reps[k], k)]

\* ----------------------------------------------------- scan_authz_model
AuthzHitsOfFile(fs, rel) ==
    LET lines == read_file_lines(fs, rel)
        hit == SetToSortedSeq({ln \in 1..Len(lines) : LineFeat(lines[ln]).authz})
    IN [k \in 1..Len(hit) |-> [file |-> rel, line |-> hit[k]]]

RECURSIVE AuthzLoop(_, _, _, _)
AuthzLoop(fs, files, budget, k) ==
    IF k > Len(files) THEN <<>>
    ELSE AuthzHitsOfFile(fs, files[k])
         \o (IF budget # 0 /\ k >= budget THEN <<>> ELSE AuthzLoop(fs, files, budget, k + 1))

\* budget = 0 stands for None
scan_authz_model(fs, files, budget) == [hits |-> AuthzLoop(fs, files, budget, 1)]

\* --------------------------------------------------------------- scoring
severity_rank(sev) ==
    CASE sev = "critical" -> 0 [] sev = "high" -> 1 [] sev = "medium" -> 2
      [] sev = "low" -> 3 [] OTHER -> 4

\* variant: critical from 75 up
normalize_severity_From75(sink_sev, kind, score) ==
    IF sink_sev = "high" /\ kind \in {"cmd", "memory", "deser"} /\ score >= 75 THEN "critical"
    ELSE IF sink_sev = "high" THEN "high"
    ELSE IF sink_sev = "medium" THEN "medium"
    ELSE "low"

normalize_severity(sink_sev, kind, score) ==
    IF sink_sev = "high" /\ kind \in {"cmd", "memory", "deser"} /\ score >= 85 THEN "critical"
    ELSE IF sink_sev = "high" THEN "high"
    ELSE IF sink_sev = "medium" THEN "medium"
    ELSE "low"

\* variant: the Confirmed threshold is exclusive
status_from_score_Strict(score) ==
    IF score > 80 THEN "Confirmed"
    ELSE IF score >= 60 THEN "Likely"
    ELSE "Possible"

status_from_score(score) ==
    IF score >= 80 THEN "Confirmed"
    ELSE IF score >= 60 THEN "Likely"
    ELSE "Possible"

\* variant: no file has authorization hits
authz_hits_by_file_None(authz_model, f) == <<>>

\* variant: the hits are not grouped by file
authz_hits_by_file_AnyFile(authz_model, f) == authz_model.hits

authz_hits_by_file(authz_model, f) == SelectSeq(authz_model.hits, LAMBDA h : h.file = f)

\* variant: forward flows never corroborate
Corroborated_Never(flow, forward_flows) == FALSE

Corroborated(flow, forward_flows) ==
    \E k \in 1..Len(forward_flows) :
        \E j \in 1..Len(forward_flows[k].candidate_sinks) :
            /\ forward_flows[k].candidate_sinks[j].file = flow.sink.file
            /\ forward_flows[k].candidate_sinks[j].line = flow.sink.line

\* variant: the sanitizer deduction has no cap
RawScore_UncappedSanitizers(flow, forward_flows, authz_model) ==
    (IF flow.severity = "high" THEN 60 ELSE 40)
    + (IF flow.source # NoHit THEN 15 ELSE 0)
    + (IF Len(flow.function_stack) > 1 THEN 8 ELSE 0)
    + (IF flow.variable_chain # <<>> THEN 7 ELSE 0)
    + (IF Corroborated(flow, forward_flows) THEN 10 ELSE 0)
    - 6 * Len(flow.sanitizers)
    - (IF flow.guards # <<>> THEN Min(20, 5 * Len(flow.guards)) ELSE 0)
    + (IF authz_hits_by_file(authz_model, flow.sink.file) = <<>> THEN 8 ELSE 0)

\* the running sum before the final clamp
RawScore(flow, forward_flows, authz_model) ==
    (IF flow.severity = "high" THEN 60 ELSE 40)
    + (IF flow.source # NoHit THEN 15 ELSE 0)
    + (IF Len(flow.function_stack) > 1 THEN 8 ELSE 0)
    + (IF flow.variable_chain # <<>> THEN 7 ELSE 0)
    + (IF Corroborated(flow, forward_flows) THEN 10 ELSE 0)
    - (IF flow.sanitizers # <<>> THEN Min(20, 6 * Len(flow.sanitizers)) ELSE 0)
    - (IF flow.guards # <<>> THEN Min(20, 5 * Len(flow.guards)) ELSE 0)
    + (IF authz_hits_by_file(authz_model, flow.sink.file) = <<>> THEN 8 ELSE 0)

Reasoning(flow, forward_flows, authz_model) ==
    (IF flow.severity = "high" THEN <<"base+60">> ELSE <<"base+40">>)
    \o (IF flow.source # NoHit THEN <<"source+15">> ELSE <<"source+0">>)
    \o (IF Len(flow.function_stack) > 1 THEN <<"stack+8">> ELSE <<>>)
    \o (IF flow.variable_chain # <<>> THEN <<"chain+7">> ELSE <<>>)
    \o (IF Corroborated(flow, forward_flows) THEN <<"forward+10">> ELSE <<>>)
    \o (IF flow.sanitizers # <<>> THEN <<"sanitizer-">> ELSE <<>>)
    \o (IF flow.guards # <<>> THEN <<"guard-">> ELSE <<>>)
    \o (IF authz_hits_by_file(authz_model, flow.sink.file) = <<>> THEN <<"noauthz+8">> ELSE <<>>)

\* variant: no ceiling
Clamp_NoCeiling(score) == Max(0, score)

Clamp(score) == Max(0, Min(100, score))

calc_evidence_score(flow, forward_flows, authz_model) ==
    [score |-> Clamp(RawScore(flow, forward_flows, authz_model)),
     reasoning |-> Reasoning(flow, forward_flows, authz_model)]

\* -------------------------------------------------------- build_findings
FlowKey(flow) == <<flow.sink.file, flow.sink.line, flow.kind>>

\* variant: every flow becomes a finding
DedupFlows_KeepAll(flows) == [k \in 1..Len(flows) |-> [pos |-> k, flow |-> flows[k]]]

\* flows that survive the dedup set: the first of each key, in flow order
DedupFlows(flows) ==
    SelectSeq([k \in 1..Len(flows) |-> [pos |-> k, flow |-> flows[k]]],
              LAMBDA e : \A j \in 1..(e.pos - 1) : FlowKey(flows[j]) # FlowKey(e.flow))

\* the sum as it stands after the additions of the flow's own evidence
PartialSum(flow, forward_flows) ==
    (IF flow.severity = "high" THEN 60 ELSE 40)
    + (IF flow.source # NoHit THEN 15 ELSE 0)
    + (IF Len(flow.function_stack) > 1 THEN 8 ELSE 0)
    + (IF flow.variable_chain # <<>> THEN 7 ELSE 0)
    + (IF Corroborated(flow, forward_flows) THEN 10 ELSE 0)

\* variant: the severity is taken from the sum before the deductions
MakeFinding_PartialSum(flow, idx, forward_flows, authz_model) ==
    LET sc == calc_evidence_score(flow, forward_flows, authz_model)
    IN [id |-> idx,
        severity |-> normalize_severity(flow.severity, flow.kind, PartialSum(flow, forward_flows)),
        status |-> status_from_score(sc.score),
        evidence_score |-> sc.score,
        source |-> [file |-> flow.source.file, line |-> flow.source.line],
        sink |-> [file |-> flow.sink.file, line |-> flow.sink.line],
        kind |-> flow.kind,
        function_stack |-> flow.function_stack,
        variable_chain |-> flow.variable_chain,
        guards |-> flow.guards,
        sanitizers |-> flow.sanitizers,
        evidence |-> flow.evidence,
        score_reasoning |-> sc.reasoning,
        notes |-> flow.notes,
        authz_gap_hint |-> IF authz_hits_by_file(authz_model, flow.sink.file) = <<>>
                           THEN "missing" ELSE "partial"]

MakeFinding(flow, idx, forward_flows, authz_model) ==
    LET sc == calc_evidence_score(flow, forward_flows, authz_model)
    IN [id |-> idx,
        severity |-> normalize_severity(flow.severity, flow.kind, sc.score),
        status |-> status_from_score(sc.score),
        evidence_score |-> sc.score,
        source |-> [file |-> flow.source.file, line |-> flow.source.line],
        sink |-> [file |-> flow.sink.file, line |-> flow.sink.line],
        kind |-> flow.kind,
        function_stack |-> flow.function_stack,
        variable_chain |-> flow.variable_chain,
        guards |-> flow.guards,
        sanitizers |-> flow.sanitizers,
        evidence |-> flow.evidence,
        score_reasoning |-> sc.reasoning,
        notes |-> flow.notes,
        authz_gap_hint |-> IF authz_hits_by_file(authz_model, flow.sink.file) = <<>>
                           THEN "missing" ELSE "partial"]

\* variant: the lower score comes first
FindingLess_AscendingScore(a, b) ==
    \/ severity_rank(a.severity) < severity_rank(b.severity)
    \/ /\ severity_rank(a.severity) = severity_rank(b.severity)
       /\ \/ a.evidence_score < b.evidence_score
          \/ a.evidence_score = b.evidence_score /\ a.id < b.id

FindingLess(a, b) ==
    \/ severity_rank(a.severity) < severity_rank(b.severity)
    \/ /\ severity_rank(a.severity) = severity_rank(b.severity)
       /\ \/ a.evidence_score > b.evidence_score
          \/ a.evidence_score = b.evidence_score /\ a.id < b.id

RECURSIVE SortFindings(_)
SortFindings(S) ==
    IF S = {} THEN <<>>
    ELSE LET m == CHOOSE x \in S : \A y \in S \ {x} : FindingLess(x, y)
         IN <<m>> \o SortFindings(S \ {m})

build_findings(flows, forward_flows, authz_model) ==
    LET kept == DedupFlows(flows)
    IN SortFindings({MakeFinding(kept[k].flow, k, forward_flows, authz_model) : k \in 1..Len(kept)})

\* --------------------------------------------------- build_attack_chains
HasKind(findings, k) == \E i \in 1..Len(findings) : findings[i].kind = k

\* variant: the ssrf rule is skipped once write-then-execute has fired
ChainNames_SsrfUnlessWrite(findings) ==
    (IF HasKind(findings, "path")
        /\ (HasKind(findings, "cmd") \/ HasKind(findings, "deser") \/ HasKind(findings, "template"))
     THEN <<"write-then-execute">> ELSE <<>>)
    \o (IF \E i \in 1..Len(findings) : /\ findings[i].authz_gap_hint = "missing"
                                        /\ findings[i].severity \in {"critical", "high"}
        THEN <<"privilege-bypass-to-sink">> ELSE <<>>)
    \o (IF /\ HasKind(findings, "ssrf") /\ (HasKind(findings, "authz") \/ HasKind(findings, "cmd"))
           /\ ~(HasKind(findings, "path")
                /\ (HasKind(findings, "cmd") \/ HasKind(findings, "deser")
                    \/ HasKind(findings, "template")))
        THEN <<"ssrf-to-bypass">> ELSE <<>>)

\* variant: only the kind-combination rules
ChainNames_KindRulesOnly(findings) ==
    (IF HasKind(findings, "path")
        /\ (HasKind(findings, "cmd") \/ HasKind(findings, "deser") \/ HasKind(findings, "template"))
     THEN <<"write-then-execute">> ELSE <<>>)
    \o (IF HasKind(findings, "ssrf") /\ (HasKind(findings, "authz") \/ HasKind(findings, "cmd"))
        THEN <<"ssrf-to-bypass">> ELSE <<>>)

ChainNames(findings) ==
    (IF HasKind(findings, "path")
        /\ (HasKind(findings, "cmd") \/ HasKind(findings, "deser") \/ HasKind(findings, "template"))
     THEN <<"write-then-execute">> ELSE <<>>)
    \o (IF \E i \in 1..Len(findings) : /\ findings[i].authz_gap_hint = "missing"
                                        /\ findings[i].severity \in {"critical", "high"}
        THEN <<"privilege-bypass-to-sink">> ELSE <<>>)
    \o (IF HasKind(findings, "ssrf") /\ (HasKind(findings, "authz") \/ HasKind(findings, "cmd"))
        THEN <<"ssrf-to-bypass">> ELSE <<>>)

build_attack_chains(findings) ==
    LET names == ChainNames(findings)
    IN [k \in 1..Len(names) |-> [id |-> k, name |-> names[k]]]

\* variant: a Confirmed finding of any severity makes the run exit 2
ExitStatus_AnyConfirmed(findings) ==
    IF \E i \in 1..Len(findings) : findings[i].status = "Confirmed" THEN 2 ELSE 0

\* variant: any finding at all makes the run exit 2
ExitStatus_AnyFinding(findings) == IF findings # <<>> THEN 2 ELSE 0

\* exit status of a run that got to the end: main() lines 1163-1164, 1264-1265
ExitStatus(findings) ==
    IF \E i \in 1..Len(findings) : /\ findings[i].status = "Confirmed"
                                   /\ findings[i].severity \in {"critical", "high"}
    THEN 2 ELSE 0

\* ===================================================== the two scanners
\* entry_scan.py / sink_scan.py: one hit per line (first matching rule),
\* grouped per rule in RULES order in the JSON payload, files in walk order.
EntryRuleOrder == <<"main", "http", "rpc", "mq", "cli", "env_cfg", "file_parse">>
SinkRuleOrder == <<"exec", "eval", "template", "sql", "deser", "file_write",
                   "network", "memory", "dangerous_cfg">>
SinkRuleSeverity(cat) ==
    IF cat \in {"exec", "eval", "sql", "deser", "memory"} THEN "high" ELSE "medium"

ScanFile(fsys, rel, which, cat) ==
    LET lines == read_file_lines(fsys, rel)
        Cat(ln) == IF which = "entry" THEN LineFeat(lines[ln]).entry ELSE LineFeat(lines[ln]).sink
        hit == SetToSortedSeq({ln \in 1..Len(lines) : LineFeat(lines[ln]).text /\ Cat(ln) = cat})
    IN [k \in 1..Len(hit) |->
           [file |-> rel, line |-> hit[k], category |-> cat,
            severity |-> IF which = "entry" THEN "" ELSE SinkRuleSeverity(cat),
            snippet |-> LineFeat(lines[hit[k]]).ids]]

RECURSIVE ScanCategory(_, _, _, _, _)
ScanCategory(fsys, scanned, which, cat, k) ==
    IF k > Len(scanned) THEN <<>>
    ELSE ScanFile(fsys, scanned[k], which, cat) \o ScanCategory(fsys, scanned, which, cat, k + 1)

\* parse_entries_or_sinks over the payload: categories flattened in order
RECURSIVE parse_entries_or_sinks(_, _, _, _, _)
parse_entries_or_sinks(fsys, scanned, which, rules, k) ==
    IF k > Len(rules) THEN <<>>
    ELSE ScanCategory(fsys, scanned, which, rules[k], 1)
         \o parse_entries_or_sinks(fsys, scanned, which, rules, k + 1)

\* ============================================ main(): set-up and the cache
ArtifactOrder == <<"entries.md", "sinks.md", "taint_policy.md", "flows_backward.md",
                   "flows_forward.md", "authz_model.md", "findings.md",
                   "attack_chains.md", "report.md">>
ArtifactNames == {ArtifactOrder[i] : i \in 1..Len(ArtifactOrder)}

\* A rendered text is identified by the run that rendered it (every header
\* carries now_iso()) and the artifact it is; EmptyText is "", AbsentFile a
\* file that does not exist.
Text(n, a) == [gen |-> n, name |-> a]
EmptyText == [gen |-> 0, name |-> ""]
AbsentFile == [gen |-> 0 - 1, name |-> ""]

parse_focus_paths(fsys, raw) == SelectSeq(raw, LAMBDA f : f \in DOMAIN fsys /\ fsys[f].present)

\* budget 0 stands for None.  Focus files are yielded without counting; the
\* walk of the root stops once `count >= budget`.
iter_source_files(fsys, focus_paths, budget) ==
    IF focus_paths # <<>> THEN focus_paths
    ELSE LET walk == SelectSeq(FileOrder, LAMBDA f : fsys[f].present)
         IN IF budget > 0 THEN Take(walk, budget) ELSE walk

\* sha1 is taken to be collision-free on the model's contents; size is the
\* length of the content.
build_file_state(fsys, scanned) ==
    [f \in {scanned[k] : k \in 1..Len(scanned)} \cap {g \in DOMAIN fsys : fsys[g].readable} |->
        [mtime |-> fsys[f].mtime, size |-> Len(fsys[f].lines), sha1 |-> fsys[f].lines]]

EmptyState == [f \in {} |-> 0]
NoSig == [repo_root |-> "", focus_paths |-> <<>>, kinds |-> <<>>, depth |-> 0 - 1, budget |-> 0 - 1]

params_signature(a, focus_paths, kindlist) ==
    [repo_root |-> a.repo_root, focus_paths |-> focus_paths, kinds |-> kindlist,
     depth |-> a.depth, budget |-> IF a.budget # 0 THEN a.budget ELSE 0]

same_signature(a, b) == a = b

NoArtifacts ==
    [findings |-> <<>>, attack_chains |-> <<>>, texts |-> [a \in ArtifactNames |-> EmptyText]]

\* cache.json.  shape: "missing" no file; "garbage" not JSON; "list" JSON
\* that is not an object but truthy; "empty" JSON that is falsy ({}, [],
\* null); "dict" a JSON object.  A dict lacking a key carries the default
\* that cache.get(key, default) supplies; art is "ok", "absent" or "notdict"
\* (the "artifacts" value is not an object).
MissingCache ==
    [shape |-> "missing", sig |-> NoSig, state |-> EmptyState, art |-> "absent", artifacts |-> NoArtifacts]

load_cache(c) == IF c.shape \in {"missing", "garbage"} THEN [c EXCEPT !.shape = "empty"] ELSE c

\* bool(cache) and same_signature(...) and cache.get("file_state", {}) == curr_state
\* (evaluating it on a non-object raises AttributeError: CacheRaises)
CacheRaises(c) == c.shape = "list"
\* variant: the file-state map is not compared
cache_ok_SignatureOnly(c, sig, state) ==
    /\ c.shape = "dict"
    /\ same_signature(c.sig, sig)

cache_ok(c, sig, state) ==
    /\ c.shape = "dict"
    /\ same_signature(c.sig, sig)
    /\ c.state = state

\* ---------------------------------------------------------- run arguments
BaseArgs == [repo_root |-> "r1", focus |-> <<>>, kinds |-> DEFAULT_KINDS,
             depth |-> 3, budget |-> 0, no_cache |-> FALSE]
\* r2 is a mirror of r1 (same relative paths, sizes, mtimes and contents).
ArgsSet == {BaseArgs,
            [BaseArgs EXCEPT !.repo_root = "r2"],
            [BaseArgs EXCEPT !.focus = <<"a.py">>],
            [BaseArgs EXCEPT !.kinds = <<"path">>],
            [BaseArgs EXCEPT !.depth = 1],
            [BaseArgs EXCEPT !.budget = 1],
            [BaseArgs EXCEPT !.no_cache = TRUE]}

EffDepth(a) == Max(1, a.depth)

\* ------------------------------------------------------- file-system model
Hot == <<"src", "def", "sink">>
Cold == <<"sink", "authz">>
File(p, r, l, m) == [present |-> p, readable |-> r, lines |-> l, mtime |-> m]
NoFile == File(FALSE, FALSE, <<>>, 0)

FsSet ==
    {[f \in FileNames |-> IF f = "a.py" THEN a ELSE NoFile] :
        a \in {File(TRUE, TRUE, Hot, 1), File(TRUE, TRUE, Hot, 2), File(TRUE, TRUE, Cold, 1)}}
    \cup
    {[f \in FileNames |-> IF f = "a.py" THEN File(TRUE, TRUE, Hot, 1) ELSE b] :
        b \in {File(TRUE, FALSE, <<"authz">>, 1), File(TRUE, TRUE, <<"authz">>, 1)}}

\* ================================================================ state
VARIABLES
    fs,              \* the repository: file name -> File
    cache,           \* <output_dir>/cache.json
    out,             \* the nine artifacts of the output directory
    errlog,          \* <output_dir>/runtime_error.log
    pc, args, run, exit, wi,
    files, curr_sig, curr_state, cache_hit,      \* locals of main()
    entries_data, sinks_data, entry_hits, sink_hits,
    backward_flows, forward_flows, authz_model, findings, attack_chains,
    hist,            \* history of the behaviour, for stating the properties
    first,           \* result of the first of two runs of the core on one input
    input            \* argument handed to the scoring functions

persist == <<fs, cache, out, errlog>>
proc == <<pc, args, run, exit, wi>>
setup == <<files, curr_sig, curr_state, cache_hit>>
scan == <<entries_data, sinks_data, entry_hits, sink_hits>>
core == <<backward_flows, forward_flows, authz_model, findings, attack_chains>>
aux == <<first, input>>
vars == <<persist, proc, setup, scan, core, hist, aux>>

NoAuthz == [hits |-> <<>>]
Killed == 128 + 9
NoExit == 0 - 1
NoLog == [run |-> 0, detail |-> ""]
NoOut == [a \in ArtifactNames |-> AbsentFile]

\* what a run sees of the files it scans
Snapshot(fsys, scanned) == [k \in 1..Len(scanned) |-> <<scanned[k], fsys[scanned[k]]>>]

Hist0 ==
    [cache0 |-> MissingCache,       \* cache.json when the current run started
     out0 |-> NoOut,                \* the artifacts when it started
     snap0 |-> <<>>,                \* the scanned files when it started
     scans |-> 0,                   \* scanner invocations of the current run
     builds |-> 0,                  \* flows/findings/chains builds of the current run
     cacheWrites |-> 0,             \* writes of cache.json by the current run
     scanFailed |-> FALSE,          \* a scanner of the current run failed
     tampered |-> FALSE,            \* cache.json edited since the last run ended
     prevExit |-> NoExit,           \* the run before the current one:
     prevArgs |-> BaseArgs,         \*   its exit status, arguments, scanned files,
     prevSnap |-> <<>>,             \*   and whether cache.json is as it left it
     prevIntact |-> FALSE,
     firstArgs |-> BaseArgs,        \* arguments of the first run
     wArgs |-> BaseArgs,            \* the run that wrote cache.json: its arguments,
     wSnap |-> <<>>,                \*   its scanned files, and whether cache.json
     wIntact |-> FALSE,             \*   is still as that run wrote it,
     wExit |-> NoExit,              \*   and the status it went on to exit with
     faults |-> 0, edits |-> 0, altArgs |-> 0]

RunInit ==
    /\ cache = MissingCache
    /\ out = NoOut
    /\ errlog = NoLog
    /\ pc = "done" /\ args = BaseArgs /\ run = 0 /\ exit = NoExit /\ wi = 0
    /\ files = <<>> /\ curr_sig = NoSig /\ curr_state = EmptyState /\ cache_hit = FALSE
    /\ entries_data = "none" /\ sinks_data = "none" /\ entry_hits = <<>> /\ sink_hits = <<>>
    /\ backward_flows = <<>> /\ forward_flows = <<>> /\ authz_model = NoAuthz
    /\ findings = <<>> /\ attack_chains = <<>>
    /\ hist = Hist0

\* a fresh output directory next to a repository holding a.py only
FsInit == {f \in FsSet : f["a.py"].mtime = 1 /\ ~f["b.py"].present}

\* rerun: "none", "same" (the inputs as they were) or "B" (the inputs extended)
NoResult == [findings |-> <<>>, attack_chains |-> <<>>, rerun |-> "none"]
NoInput == [score |-> 0, sink_sev |-> "", kind |-> ""]

Init ==
    /\ fs \in FsInit
    /\ RunInit
    /\ first = NoResult /\ input = NoInput

\* the process is gone: nothing of main()'s locals is left
DropLocals ==
    /\ entries_data' = "none" /\ sinks_data' = "none"
    /\ entry_hits' = <<>> /\ sink_hits' = <<>>
    /\ backward_flows' = <<>> /\ forward_flows' = <<>> /\ authz_model' = NoAuthz
    /\ findings' = <<>> /\ attack_chains' = <<>>

\* the except-branch of main(): lines 1267-1275
Fail(n, detail) ==
    /\ errlog' = [run |-> n, detail |-> detail]
    /\ exit' = 1
    /\ pc' = "done"

\* ------------------------------------------------------------ environment
EditRepo ==
    /\ pc = "done" /\ hist.edits < MaxEdits
    /\ \E nfs \in FsSet \ {fs} : fs' = nfs
    /\ hist' = [hist EXCEPT !.edits = @ + 1]
    /\ UNCHANGED <<cache, out, errlog, proc, setup, scan, core>>
    /\ UNCHANGED aux

TamperSet(c) ==
    {[MissingCache EXCEPT !.shape = "garbage"],
     [MissingCache EXCEPT !.shape = "list"],
     [c EXCEPT !.shape = "dict", !.art = "absent", !.artifacts = NoArtifacts],
     [c EXCEPT !.shape = "dict", !.art = "notdict", !.artifacts = NoArtifacts]}

TamperCache ==
    /\ pc = "done" /\ hist.faults < MaxFaults
    /\ \E c \in TamperSet(cache) \ {cache} : cache' = c
    /\ hist' = [hist EXCEPT !.tampered = TRUE, !.wIntact = FALSE, !.faults = @ + 1]
    /\ UNCHANGED <<fs, out, errlog, proc, setup, scan, core>>
    /\ UNCHANGED aux

\* ----------------------------------------------- main(): lines 1100-1128
StartRun(a) ==
    /\ pc = "done" /\ run < MaxRuns
    /\ run > 0 /\ a # hist.firstArgs => hist.altArgs < MaxAltArgs
    /\ LET focus_paths == parse_focus_paths(fs, a.focus)
           scanned == iter_source_files(fs, focus_paths, a.budget)
           sig == params_signature(a, focus_paths, a.kinds)
           state == build_file_state(fs, scanned)
           loaded == IF a.no_cache THEN [MissingCache EXCEPT !.shape = "empty"] ELSE load_cache(cache)
       IN /\ args' = a /\ run' = run + 1 /\ wi' = 0
          /\ files' = scanned /\ curr_sig' = sig /\ curr_state' = state
          /\ hist' = [hist EXCEPT
                        !.cache0 = cache, !.out0 = out, !.snap0 = Snapshot(fs, scanned),
                        !.scans = 0, !.builds = 0, !.cacheWrites = 0, !.scanFailed = FALSE,
                        !.tampered = FALSE,
                        !.prevExit = exit, !.prevArgs = args, !.prevSnap = hist.snap0,
                        !.prevIntact = ~hist.tampered,
                        !.firstArgs = IF run = 0 THEN a ELSE @,
                        !.altArgs = IF run > 0 /\ a # hist.firstArgs THEN @ + 1 ELSE @]
          /\ DropLocals
          /\ IF CacheRaises(loaded)
             THEN /\ cache_hit' = FALSE /\ Fail(run + 1, "cache")
             ELSE /\ cache_hit' = cache_ok(loaded, sig, state)
                  /\ pc' = IF cache_ok(loaded, sig, state) THEN "replay" ELSE "phase1_entry"
                  /\ exit' = NoExit
                  /\ errlog' = errlog
    /\ UNCHANGED <<fs, cache, out>>
    /\ UNCHANGED aux

\* ----------------------------------- cache hit: main(): lines 1133-1164
\* variant: the hit path replays the texts but not the findings
LoadArtifacts_TextsOnly ==
    /\ pc = "replay" /\ wi = 0
    /\ IF cache.art = "notdict"
       THEN /\ Fail(run, "cache")
            /\ UNCHANGED <<wi, findings, attack_chains>>
       ELSE /\ findings' = <<>>
            /\ attack_chains' = <<>>
            /\ wi' = 1
            /\ UNCHANGED <<pc, exit, errlog>>
    /\ UNCHANGED <<fs, cache, out, args, run, setup, scan,
                   backward_flows, forward_flows, authz_model, hist>>
    /\ UNCHANGED aux

LoadArtifacts ==
    /\ pc = "replay" /\ wi = 0
    /\ IF cache.art = "notdict"
       THEN /\ Fail(run, "cache")
            /\ UNCHANGED <<wi, findings, attack_chains>>
       ELSE /\ findings' = cache.artifacts.findings
            /\ attack_chains' = cache.artifacts.attack_chains
            /\ wi' = 1
            /\ UNCHANGED <<pc, exit, errlog>>
    /\ UNCHANGED <<fs, cache, out, args, run, setup, scan,
                   backward_flows, forward_flows, authz_model, hist>>
    /\ UNCHANGED aux

\* variant: the hit path writes only the artifacts that do not exist yet
ReplayWrite_OnlyMissing ==
    /\ pc = "replay" /\ wi \in 1..Len(ArtifactOrder)
    /\ out' = IF out[ArtifactOrder[wi]] = AbsentFile
              THEN [out EXCEPT ![ArtifactOrder[wi]] = cache.artifacts.texts[ArtifactOrder[wi]]]
              ELSE out
    /\ wi' = wi + 1
    /\ pc' = IF wi = Len(ArtifactOrder) THEN "return" ELSE pc
    /\ UNCHANGED <<fs, cache, errlog, args, run, exit, setup, scan, core, hist>>
    /\ UNCHANGED aux

\* variant: the hit path renders the artifacts again instead of replaying them
ReplayWrite_Rerender ==
    /\ pc = "replay" /\ wi \in 1..Len(ArtifactOrder)
    /\ out' = [out EXCEPT ![ArtifactOrder[wi]] = Text(run, ArtifactOrder[wi])]
    /\ wi' = wi + 1
    /\ pc' = IF wi = Len(ArtifactOrder) THEN "return" ELSE pc
    /\ UNCHANGED <<fs, cache, errlog, args, run, exit, setup, scan, core, hist>>
    /\ UNCHANGED aux

ReplayWrite ==
    /\ pc = "replay" /\ wi \in 1..Len(ArtifactOrder)
    /\ out' = [out EXCEPT ![ArtifactOrder[wi]] = cache.artifacts.texts[ArtifactOrder[wi]]]
    /\ wi' = wi + 1
    /\ pc' = IF wi = Len(ArtifactOrder) THEN "return" ELSE pc
    /\ UNCHANGED <<fs, cache, errlog, args, run, exit, setup, scan, core, hist>>
    /\ UNCHANGED aux

\* ------------------------------------- Phase 1: main(): lines 1166-1195
run_child_script(name, next) ==
    \E outcome \in {"ok", "unusable", "fail"} :
        /\ outcome # "ok" => hist.faults < MaxFaults
        /\ hist' = [hist EXCEPT !.scans = @ + 1, !.scanFailed = @ \/ outcome # "ok",
                                !.faults = IF outcome # "ok" THEN @ + 1 ELSE @]
        /\ IF outcome = "fail"
           THEN \* non-zero return code; the markdown may or may not be there
                /\ \E written \in BOOLEAN :
                       out' = IF written THEN [out EXCEPT ![name] = Text(run, name)] ELSE out
                /\ Fail(run, "scanner")
                /\ UNCHANGED <<entries_data, sinks_data>>
           ELSE /\ out' = [out EXCEPT ![name] = Text(run, name)]
                /\ IF name = "entries.md"
                   THEN entries_data' = outcome /\ sinks_data' = sinks_data
                   ELSE sinks_data' = outcome /\ entries_data' = entries_data
                /\ pc' = next
                /\ UNCHANGED <<exit, errlog>>

Phase1Entry ==
    /\ pc = "phase1_entry"
    /\ run_child_script("entries.md", "phase1_sink")
    /\ UNCHANGED <<fs, cache, args, run, wi, setup, entry_hits, sink_hits, core>>
    /\ UNCHANGED aux

Phase1Sink ==
    /\ pc = "phase1_sink"
    /\ run_child_script("sinks.md", "load")
    /\ UNCHANGED <<fs, cache, args, run, wi, setup, entry_hits, sink_hits, core>>
    /\ UNCHANGED aux

\* variant: unusable scanner output is read as "no hits"
LoadHits_Lenient ==
    /\ pc = "load"
    /\ entry_hits' = IF entries_data = "unusable" THEN <<>>
                     ELSE parse_entries_or_sinks(fs, files, "entry", EntryRuleOrder, 1)
    /\ sink_hits' = IF sinks_data = "unusable" THEN <<>>
                    ELSE parse_entries_or_sinks(fs, files, "sink", SinkRuleOrder, 1)
    /\ pc' = "phase2_policy"
    /\ UNCHANGED <<exit, errlog>>
    /\ UNCHANGED <<fs, cache, out, args, run, wi, setup, entries_data, sinks_data, core, hist>>
    /\ UNCHANGED aux

\* load_json + parse_entries_or_sinks: lines 1192-1195
LoadHits ==
    /\ pc = "load"
    /\ IF entries_data = "unusable" \/ sinks_data = "unusable"
       THEN /\ Fail(run, "scanner")
            /\ UNCHANGED <<entry_hits, sink_hits>>
       ELSE /\ entry_hits' = parse_entries_or_sinks(fs, files, "entry", EntryRuleOrder, 1)
            /\ sink_hits' = parse_entries_or_sinks(fs, files, "sink", SinkRuleOrder, 1)
            /\ pc' = "phase2_policy"
            /\ UNCHANGED <<exit, errlog>>
    /\ UNCHANGED <<fs, cache, out, args, run, wi, setup, entries_data, sinks_data, core, hist>>
    /\ UNCHANGED aux

\* ----------------------------------- Phases 2-5: main(): lines 1197-1235
WriteArtifact(name) == out' = [out EXCEPT ![name] = Text(run, name)]

Phase2Policy ==
    /\ pc = "phase2_policy"
    /\ WriteArtifact("taint_policy.md")
    /\ pc' = "phase2_backward"
    /\ UNCHANGED <<fs, cache, errlog, args, run, exit, wi, setup, scan, core, hist>>
    /\ UNCHANGED aux

BackwardStep(fsys, scanned, depth, kinds) ==
    \E seed \in Bijections(ChainUniverse(fsys, sink_hits, entry_hits, depth)) :
        backward_flows' = build_backward_flows(fsys, sink_hits, entry_hits,
                                               index_functions(fsys, scanned, 1),
                                               depth, kinds, seed)

Phase2Backward ==
    /\ pc = "phase2_backward"
    /\ BackwardStep(fs, files, EffDepth(args), args.kinds)
    /\ WriteArtifact("flows_backward.md")
    /\ hist' = [hist EXCEPT !.builds = @ + 1]
    /\ pc' = "phase2_5"
    /\ UNCHANGED <<fs, cache, errlog, args, run, exit, wi, setup, scan,
                   forward_flows, authz_model, findings, attack_chains>>
    /\ UNCHANGED aux

Phase2_5Forward ==
    /\ pc = "phase2_5"
    /\ forward_flows' = build_forward_flows(fs, entry_hits, sink_hits, EffDepth(args), args.kinds)
    /\ WriteArtifact("flows_forward.md")
    /\ hist' = [hist EXCEPT !.builds = @ + 1]
    /\ pc' = "phase3"
    /\ UNCHANGED <<fs, cache, errlog, args, run, exit, wi, setup, scan,
                   backward_flows, authz_model, findings, attack_chains>>
    /\ UNCHANGED aux

Phase3Authz ==
    /\ pc = "phase3"
    /\ authz_model' = scan_authz_model(fs, files, IF args.budget > 0 THEN args.budget ELSE 0)
    /\ WriteArtifact("authz_model.md")
    /\ pc' = "phase3_5"
    /\ UNCHANGED <<fs, cache, errlog, args, run, exit, wi, setup, scan,
                   backward_flows, forward_flows, findings, attack_chains, hist>>
    /\ UNCHANGED aux

Phase3_5Findings ==
    /\ pc = "phase3_5"
    /\ findings' = build_findings(backward_flows, forward_flows, authz_model)
    /\ WriteArtifact("findings.md")
    /\ hist' = [hist EXCEPT !.builds = @ + 1]
    /\ pc' = "phase4"
    /\ UNCHANGED <<fs, cache, errlog, args, run, exit, wi, setup, scan,
                   backward_flows, forward_flows, authz_model, attack_chains>>
    /\ UNCHANGED aux

Phase4Chains ==
    /\ pc = "phase4"
    /\ attack_chains' = build_attack_chains(findings)
    /\ WriteArtifact("attack_chains.md")
    /\ hist' = [hist EXCEPT !.builds = @ + 1]
    /\ pc' = "phase5"
    /\ UNCHANGED <<fs, cache, errlog, args, run, exit, wi, setup, scan,
                   backward_flows, forward_flows, authz_model, findings>>
    /\ UNCHANGED aux

Phase5Report ==
    /\ pc = "phase5"
    /\ WriteArtifact("report.md")
    /\ pc' = "save_cache"
    /\ UNCHANGED <<fs, cache, errlog, args, run, exit, wi, setup, scan, core, hist>>
    /\ UNCHANGED aux

\* --------------------------------------------- main(): lines 1237-1262
ReadOrEmpty(t) == IF t = AbsentFile THEN EmptyText ELSE t

\* variant: an existing entry keeps its artifacts, only the keys are refreshed
cache_payload_KeepOld ==
    [shape |-> "dict",
     sig |-> curr_sig,
     state |-> curr_state,
     art |-> "ok",
     artifacts |-> IF cache.shape = "dict" /\ cache.art = "ok" THEN cache.artifacts
                   ELSE [findings |-> findings,
                         attack_chains |-> attack_chains,
                         texts |-> [a \in ArtifactNames |-> ReadOrEmpty(out[a])]]]

cache_payload ==
    [shape |-> "dict",
     sig |-> curr_sig,
     state |-> curr_state,
     art |-> "ok",
     artifacts |-> [findings |-> findings,
                    attack_chains |-> attack_chains,
                    texts |-> [a \in ArtifactNames |->
                                  IF a \in {"entries.md", "sinks.md"} THEN ReadOrEmpty(out[a])
                                  ELSE Text(run, a)]]]

\* variant: the entry is written whether or not caching is on
SaveCache_Always ==
    /\ pc = "save_cache"
    /\ cache' = cache_payload
    /\ hist' = [hist EXCEPT !.cacheWrites = @ + 1, !.wArgs = args,
                            !.wSnap = hist.snap0, !.wIntact = TRUE,
                            !.wExit = NoExit]
    /\ pc' = "return"
    /\ UNCHANGED <<fs, out, errlog, args, run, exit, wi, setup, scan, core>>
    /\ UNCHANGED aux

SaveCache ==
    /\ pc = "save_cache"
    /\ IF ~args.no_cache
       THEN /\ cache' = cache_payload
            /\ hist' = [hist EXCEPT !.cacheWrites = @ + 1, !.wArgs = args,
                                    !.wSnap = hist.snap0, !.wIntact = TRUE,
                                    !.wExit = NoExit]
       ELSE UNCHANGED <<cache, hist>>
    /\ pc' = "return"
    /\ UNCHANGED <<fs, out, errlog, args, run, exit, wi, setup, scan, core>>
    /\ UNCHANGED aux

\* lines 1163-1164 and 1264-1265
Return ==
    /\ pc = "return"
    /\ exit' = ExitStatus(findings)
    /\ pc' = "done"
    /\ hist' = IF hist.cacheWrites = 1 /\ hist.wIntact
               THEN [hist EXCEPT !.wExit = ExitStatus(findings)] ELSE hist
    /\ UNCHANGED <<persist, args, run, wi, setup, scan, core>>
    /\ UNCHANGED aux

\* the process is killed; nothing is caught, nothing is logged
Interrupt ==
    /\ pc # "done" /\ hist.faults < MaxFaults
    /\ exit' = Killed
    /\ pc' = "done"
    /\ hist' = [hist EXCEPT !.faults = @ + 1]
    /\ DropLocals
    /\ UNCHANGED <<persist, args, run, wi, setup>>
    /\ UNCHANGED aux

Next ==
    \/ EditRepo
    \/ TamperCache
    \/ \E a \in ArgsSet : StartRun(a)
    \/ LoadArtifacts
    \/ ReplayWrite
    \/ Phase1Entry
    \/ Phase1Sink
    \/ LoadHits
    \/ Phase2Policy
    \/ Phase2Backward
    \/ Phase2_5Forward
    \/ Phase3Authz
    \/ Phase3_5Findings
    \/ Phase4Chains
    \/ Phase5Report
    \/ SaveCache
    \/ Return
    \/ Interrupt

Spec == Init /\ [][Next]_vars

\* ================================================ the core, run on its own
\* build_backward_flows .. build_attack_chains applied to hits, files and
\* parameters given directly, then once more in a second interpreter process.
Guarded == <<"src", "def", "sink", "san", "guard", "authz">>
Thick == <<"brace", "san", "san", "san", "san", "guard", "guard", "guard", "guard", "authz">>
\* thirteen lines with the sink on line 12
Blanks(n) == [k \in 1..n |-> "blank"]
LongPlain == Blanks(11) \o <<"sink", "blank">>
LongFn == <<"def">> \o Blanks(10) \o <<"sink", "blank">>
LongBare == Blanks(11) \o <<"brace", "blank">>

CoreFsSet ==
    {[f \in FileNames |-> IF f = "a.py" THEN File(TRUE, TRUE, a, 1) ELSE b] :
        a \in {Hot, Guarded, Thick, LongPlain, LongFn, LongBare},
        b \in {NoFile, File(TRUE, FALSE, Cold, 1), File(TRUE, TRUE, Cold, 1)}}

Hit(f, l, c, sev) == [file |-> f, line |-> l, category |-> c, severity |-> sev, snippet |-> {}]

CoreSinkHits ==
    {Hit("a.py", 3, "exec", "high"), Hit("a.py", 3, "eval", "high"),
     Hit("a.py", 3, "file_write", "medium"), Hit("a.py", 1, "file_write", "medium"),
     Hit("b.py", 1, "exec", "high"), Hit("a.py", 12, "exec", "high"),
     Hit("a.py", 3, "exec", "medium"), Hit("a.py", 3, "exec", "low")}

CoreEntryHits == {Hit("a.py", 1, "env_cfg", ""), Hit("b.py", 1, "http", "")}

CoreArgsSet ==
    {[BaseArgs EXCEPT !.kinds = k, !.depth = d] : k \in {DEFAULT_KINDS, <<"cmd">>}, d \in {1, 3}}

\* what stays untouched when the core runs on its own
Idle ==
    /\ cache = MissingCache /\ out = NoOut /\ errlog = NoLog
    /\ exit = NoExit /\ wi = 0
    /\ curr_sig = NoSig /\ cache_hit = FALSE
    /\ entries_data = "none" /\ sinks_data = "none"
    /\ hist = Hist0

CoreInit ==
    /\ Idle
    /\ input = NoInput /\ first = NoResult
    /\ fs \in CoreFsSet
    /\ files = iter_source_files(fs, <<>>, 0)
    /\ curr_state = build_file_state(fs, files)
    /\ args \in CoreArgsSet
    /\ sink_hits \in SeqsUpTo(CoreSinkHits, MaxSinks)
    /\ entry_hits \in SeqsUpTo(CoreEntryHits, MaxEntries)
    /\ backward_flows = <<>> /\ forward_flows = <<>> /\ authz_model = NoAuthz
    /\ findings = <<>> /\ attack_chains = <<>>
    /\ pc = "core_backward" /\ run = 1

CoreFixed == <<persist, args, wi, setup, scan, hist, input>>

CoreBackward ==
    /\ pc = "core_backward"
    /\ BackwardStep(fs, files, EffDepth(args), args.kinds)
    /\ pc' = "core_forward"
    /\ UNCHANGED <<CoreFixed, exit, run, first, forward_flows, authz_model, findings, attack_chains>>

CoreForward ==
    /\ pc = "core_forward"
    /\ forward_flows' = build_forward_flows(fs, entry_hits, sink_hits, EffDepth(args), args.kinds)
    /\ pc' = "core_authz"
    /\ UNCHANGED <<CoreFixed, exit, run, first, backward_flows, authz_model, findings, attack_chains>>

CoreAuthz ==
    /\ pc = "core_authz"
    /\ authz_model' = scan_authz_model(fs, files, 0)
    /\ pc' = "core_findings"
    /\ UNCHANGED <<CoreFixed, exit, run, first, backward_flows, forward_flows, findings, attack_chains>>

CoreFindings ==
    /\ pc = "core_findings"
    /\ findings' = build_findings(backward_flows, forward_flows, authz_model)
    /\ pc' = "core_chains"
    /\ UNCHANGED <<CoreFixed, exit, run, first, backward_flows, forward_flows, authz_model, attack_chains>>

CoreChains ==
    /\ pc = "core_chains"
    /\ attack_chains' = build_attack_chains(findings)
    /\ pc' = "core_done"
    /\ UNCHANGED <<CoreFixed, exit, run, first, backward_flows, forward_flows, authz_model, findings>>

\* main() lines 1264-1265: the status the process exits with
CoreReturn ==
    /\ pc = "core_done"
    /\ exit' = ExitStatus(findings)
    /\ pc' = "core_exit"
    /\ UNCHANGED <<CoreFixed, run, first, core>>

\* the same inputs go through the core again
CoreAgain ==
    /\ pc = "core_done" /\ run = 1
    /\ first' = [findings |-> findings, attack_chains |-> attack_chains, rerun |-> "same"]
    /\ run' = 2
    /\ pc' = "core_backward"
    /\ backward_flows' = <<>> /\ forward_flows' = <<>> /\ authz_model' = NoAuthz
    /\ findings' = <<>> /\ attack_chains' = <<>>
    /\ UNCHANGED <<CoreFixed, exit>>

\* one sink hit of kind cmd and severity high, no source hit, no sanitizer or
\* guard line in the sink's window, no authorization hit in the sink's file
ScenarioA ==
    /\ Len(sink_hits) = 1 /\ entry_hits = <<>>
    /\ sink_hits[1].severity = "high" /\ kind_from_sink(sink_hits[1]) = "cmd"
    /\ LET lines == read_file_lines(fs, sink_hits[1].file)
           sg == collect_sanitizers_and_guards(lines, sink_hits[1].line)
       IN /\ lines # <<>>
          /\ sg.sanitizers = <<>> /\ sg.guards = <<>>
          /\ AuthzHitsOfFile(fs, sink_hits[1].file) = <<>>

\* the file with line n replaced
WithLine(fsys, f, n, t) == [fsys EXCEPT ![f].lines = [@ EXCEPT ![n] = t]]

\* Scenario A becomes Scenario B: a source line with its hit 10 lines above
\* the sink, a sanitizer line within 2 lines of the sink, and the core again
CoreScenarioB ==
    /\ pc = "core_done" /\ run = 1
    /\ ScenarioA
    /\ LET f == sink_hits[1].file
           l == sink_hits[1].line
           lines == read_file_lines(fs, f)
       IN /\ l - 10 \in 1..Len(lines) /\ lines[l - 10] = "blank"
          /\ \E p \in ({l - 2, l - 1, l + 1, l + 2} \cap (1..Len(lines))) :
                 /\ lines[p] = "blank"
                 /\ fs' = WithLine(WithLine(fs, f, l - 10, "src"), f, p, "san")
          /\ entry_hits' = <<Hit(f, l - 10, "env_cfg", "")>>
    /\ first' = [findings |-> findings, attack_chains |-> attack_chains, rerun |-> "B"]
    /\ run' = 2
    /\ pc' = "core_backward"
    /\ backward_flows' = <<>> /\ forward_flows' = <<>> /\ authz_model' = NoAuthz
    /\ findings' = <<>> /\ attack_chains' = <<>>
    /\ curr_state' = build_file_state(fs', files)
    /\ UNCHANGED <<cache, out, errlog, args, exit, wi, files, curr_sig, cache_hit,
                   entries_data, sinks_data, sink_hits, hist, input>>

CoreNext ==
    \/ CoreReturn
    \/ CoreScenarioB
    \/ CoreBackward
    \/ CoreForward
    \/ CoreAuthz
    \/ CoreFindings
    \/ CoreChains
    \/ CoreAgain

SpecCore == CoreInit /\ [][CoreNext]_vars

\* ==================================== the scoring functions on their own
ScoreInit ==
    /\ Idle
    /\ fs \in FsInit /\ files = <<>> /\ args = BaseArgs
    /\ sink_hits = <<>> /\ entry_hits = <<>>
    /\ backward_flows = <<>> /\ forward_flows = <<>> /\ authz_model = NoAuthz
    /\ findings = <<>> /\ attack_chains = <<>>
    /\ first = NoResult
    /\ curr_state = EmptyState
    /\ input \in [score : 0..MaxScore, sink_sev : {"high", "medium", "low"},
                   kind : {"cmd", "path", "deser"}]
    /\ pc = "grade" /\ run = 0

\* lines 677-678 of build_findings: status and severity of a score
Grade ==
    /\ pc = "grade"
    /\ findings' = <<[evidence_score |-> input.score,
                      status |-> status_from_score(input.score),
                      severity |-> normalize_severity(input.sink_sev, input.kind, input.score)]>>
    /\ pc' = "graded"
    /\ UNCHANGED <<CoreFixed, exit, run, first, backward_flows, forward_flows, authz_model, attack_chains>>

ScoreNext == Grade

SpecScore == ScoreInit /\ [][ScoreNext]_vars

\* ================================== build_attack_chains on its own
\* the three fields of a finding that build_attack_chains reads
ChainFindingSet ==
    [kind : {"path", "cmd", "query", "ssrf", "deser", "template", "authz"},
     severity : {"critical", "high", "medium"},
     authz_gap_hint : {"missing", "partial"}]

ChainsInit ==
    /\ Idle
    /\ fs \in FsInit /\ files = <<>> /\ args = BaseArgs
    /\ sink_hits = <<>> /\ entry_hits = <<>>
    /\ backward_flows = <<>> /\ forward_flows = <<>> /\ authz_model = NoAuthz
    /\ findings \in SeqsUpTo(ChainFindingSet, MaxFindings)
    /\ curr_state = EmptyState
    /\ attack_chains = <<>>
    /\ first = NoResult /\ input = NoInput
    /\ pc = "compose" /\ run = 0

Compose ==
    /\ pc = "compose"
    /\ attack_chains' = build_attack_chains(findings)
    /\ pc' = "composed"
    /\ UNCHANGED <<CoreFixed, exit, run, first, backward_flows, forward_flows, authz_model, findings>>

ChainsNext == Compose

SpecChains == ChainsInit /\ [][ChainsNext]_vars

\* ====================== build_backward_flows on one sink and many sources
\* source hits of the sink's file at equal distance (1 and 5 around line 3),
\* beyond the window of depth 1 (100), and of another file
SourceHits ==
    {Hit("a.py", 1, "env_cfg", ""), Hit("a.py", 5, "http", ""),
     Hit("a.py", 100, "http", ""), Hit("b.py", 1, "http", "")}

SourceSinks == {Hit("a.py", 3, "exec", "high"), Hit("b.py", 1, "exec", "high")}

SourceInit ==
    /\ Idle
    /\ input = NoInput /\ first = NoResult
    /\ fs = [f \in FileNames |-> IF f = "a.py" THEN File(TRUE, TRUE, Hot, 1)
                                 ELSE File(TRUE, TRUE, Cold, 1)]
    /\ files = iter_source_files(fs, <<>>, 0)
    /\ curr_state = EmptyState
    /\ args \in CoreArgsSet
    /\ sink_hits \in {<<s>> : s \in SourceSinks}
    /\ entry_hits \in SeqsUpTo(SourceHits, MaxSources)
    /\ backward_flows = <<>> /\ forward_flows = <<>> /\ authz_model = NoAuthz
    /\ findings = <<>> /\ attack_chains = <<>>
    /\ pc = "source_pick" /\ run = 1

\* main() lines 1203-1206
SourceBackward ==
    /\ pc = "source_pick"
    /\ BackwardStep(fs, files, EffDepth(args), args.kinds)
    /\ pc' = "source_picked"
    /\ UNCHANGED <<CoreFixed, exit, run, first, forward_flows, authz_model, findings, attack_chains>>

SourceNext == SourceBackward

SpecSource == SourceInit /\ [][SourceNext]_vars

\* ================== the flow builders on a tall file and many sink hits
\* 130 lines: a source, nine exec calls, blanks, and an exec call on line 130
Tall == <<"src">> \o [k \in 1..9 |-> "sink"] \o Blanks(119) \o <<"sink">>

\* sink hits as sinks.json may list them: the exec calls of lines 2..10, then
\* a file write, a hit of a category outside the table, the call on line 130
\* and a hit of the other file
FlowSinkList ==
    [k \in 1..9 |-> Hit("a.py", k + 1, "exec", "high")]
    \o <<Hit("a.py", 3, "file_write", "medium"), Hit("a.py", 4, "custom", "high"),
         Hit("a.py", 130, "exec", "high"), Hit("b.py", 1, "exec", "high")>>

FlowEntryHits ==
    {Hit("a.py", 1, "env_cfg", ""), Hit("a.py", 5, "env_cfg", ""), Hit("b.py", 1, "http", "")}

FlowArgsSet ==
    {[BaseArgs EXCEPT !.kinds = k, !.depth = d] :
        k \in {DEFAULT_KINDS, <<"cmd">>, <<"path", "unknown">>}, d \in {1, 3}}

FlowsInit ==
    /\ Idle
    /\ input = NoInput /\ first = NoResult
    /\ fs = [f \in FileNames |-> IF f = "a.py" THEN File(TRUE, TRUE, Tall, 1)
                                 ELSE File(TRUE, TRUE, Cold, 1)]
    /\ files = iter_source_files(fs, <<>>, 0)
    /\ curr_state = EmptyState
    /\ args \in FlowArgsSet
    /\ \E n \in 0..MaxFlowSinks : sink_hits = Take(FlowSinkList, n)
    /\ entry_hits \in SeqsUpTo(FlowEntryHits, MaxFlowEntries)
    /\ backward_flows = <<>> /\ forward_flows = <<>> /\ authz_model = NoAuthz
    /\ findings = <<>> /\ attack_chains = <<>>
    /\ pc = "core_backward" /\ run = 1

\* main() lines 1203-1224: the phases from the backward flows to the findings
FlowsNext == CoreBackward \/ CoreForward \/ CoreAuthz \/ CoreFindings

SpecFlows == FlowsInit /\ [][FlowsNext]_vars

\* ============================================== properties of a whole run
Finished == pc = "done" /\ run > 0
Succeeded == Finished /\ exit \in {0, 2}

\* the five parameters of the signature, as given on the command line
SigParams(a) ==
    [repo_root |-> a.repo_root, focus |-> a.focus, kinds |-> a.kinds,
     depth |-> a.depth, budget |-> a.budget]

\* the scanned files whose size, mtime and content can be read
Hashable(snap) ==
    {<<snap[k][1], snap[k][2].mtime, Len(snap[k][2].lines), snap[k][2].lines>> :
        k \in {j \in 1..Len(snap) : snap[j][2].readable}}

\* the last run ended normally with the cache enabled, and neither the
\* parameters, the scanned files nor cache.json changed since
RepeatOfGoodRun ==
    /\ run >= 2
    /\ hist.prevExit \in {0, 2}
    /\ ~hist.prevArgs.no_cache
    /\ args = hist.prevArgs
    /\ hist.snap0 = hist.prevSnap
    /\ hist.prevIntact

\* C1: a run that repeats a successful cache-enabled run (same output
\* directory, same parameters, same scanned files) is a cache hit: it invokes
\* no scanner, rebuilds no flows, findings or chains, and leaves the nine
\* artifacts with exactly the texts the first run produced, each written from
\* the cache entry.
C1_RepeatRunReplaysCache ==
    (Finished /\ exit # Killed /\ RepeatOfGoodRun) =>
        /\ cache_hit
        /\ exit \in {0, 2}
        /\ hist.scans = 0 /\ hist.builds = 0
        /\ out = hist.out0
        /\ \A a \in ArtifactNames : out[a] = hist.cache0.artifacts.texts[a]

C1_Witness ==
    /\ Finished /\ RepeatOfGoodRun /\ cache_hit /\ exit = 2
    /\ hist.scans = 0 /\ hist.builds = 0
    /\ \A a \in ArtifactNames : out[a] = Text(run - 1, a)

\* C2 (as written): a cache hit on an entry a run wrote means the five
\* signature parameters equal that run's and the scanned file set is the one
\* that run scanned, file by file.
C2_HitMeansSameScannedSet ==
    (run > 0 /\ cache_hit /\ hist.wIntact) =>
        /\ SigParams(args) = SigParams(hist.wArgs)
        /\ hist.snap0 = hist.wSnap

\* C2 (amended): a cache hit on an entry a run wrote means the five signature
\* parameters equal that run's and the scanned files whose size, mtime and
\* hash can be read are the same, with the same size, mtime and hash; any
\* other difference makes the run recompute.
C2_HitMeansSameSignatureAndState ==
    (run > 0 /\ cache_hit /\ hist.wIntact) =>
        /\ SigParams(args) = SigParams(hist.wArgs)
        /\ Hashable(hist.snap0) = Hashable(hist.wSnap)

C2_Witness ==
    /\ Succeeded /\ hist.cache0.shape = "dict" /\ hist.cache0.art = "ok"
    /\ SigParams(args) = SigParams(hist.prevArgs)
    /\ Hashable(hist.snap0) # Hashable(hist.prevSnap)
    /\ ~cache_hit /\ hist.scans = 2 /\ hist.builds = 4

\* C3: whatever cache.json holds, a run with the cache enabled whose scanners
\* work does not exit 1; an entry that is not well formed is treated as a miss
\* and the result is recomputed.
WellFormed(c) == c.shape = "dict" /\ c.art = "ok"

C3_BadCacheIsAMiss ==
    (Finished /\ exit # Killed /\ ~hist.scanFailed /\ ~WellFormed(hist.cache0)) =>
        /\ exit \in {0, 2}
        /\ ~cache_hit
        /\ hist.scans = 2 /\ hist.builds = 4

\* C4: a run that does not fail exits 2 exactly when some finding is
\* Confirmed with severity critical or high, and 0 otherwise, on the cache-hit
\* path as on the recompute path.
C4_ExitStatusReflectsFindings ==
    (Finished /\ exit \notin {1, Killed}) =>
        /\ exit \in {0, 2}
        /\ exit = 2 <=> \E i \in 1..Len(findings) :
                            /\ findings[i].status = "Confirmed"
                            /\ findings[i].severity \in {"critical", "high"}

C4_Witness ==
    /\ Finished /\ cache_hit /\ exit = 2
    /\ \E i \in 1..Len(findings) : findings[i].status = "Confirmed" /\ findings[i].severity = "critical"

\* C5: when a scanner fails or its output is unusable, the run performs no
\* later phase (no flow, finding or chain is built, no later artifact and no
\* cache entry is written), persists a diagnostic record and exits 1.
LaterArtifacts == ArtifactNames \ {"entries.md", "sinks.md"}

C6_CacheWrittenOnceAtEnd ==
    /\ hist.cacheWrites <= 1
    /\ hist.cacheWrites = 1 => \A a \in ArtifactNames : out[a] = Text(run, a)
    /\ (run > 0 /\ hist.cacheWrites = 0 /\ ~hist.tampered) => cache = hist.cache0

ThisRunsEntry ==
    /\ cache.shape = "dict" /\ cache.art = "ok"
    /\ cache.sig = curr_sig /\ cache.state = curr_state
    /\ cache.artifacts.findings = findings
    /\ cache.artifacts.attack_chains = attack_chains
    /\ cache.artifacts.texts = [a \in ArtifactNames |-> Text(run, a)]

\* C6 (as written): the above, and every successful full run replaces the
\* whole cache entry.
C6_EverySuccessfulFullRunReplaces ==
    /\ C6_CacheWrittenOnceAtEnd
    /\ (Succeeded /\ ~cache_hit /\ ~hist.tampered) => ThisRunsEntry

\* C6 (amended): the above, and a successful full run with the cache enabled
\* replaces the whole cache entry; with the cache disabled it leaves
\* cache.json alone.
C6_SuccessfulCachedFullRunReplaces ==
    /\ C6_CacheWrittenOnceAtEnd
    /\ (Succeeded /\ ~cache_hit /\ ~hist.tampered) =>
           IF args.no_cache THEN cache = hist.cache0 ELSE ThisRunsEntry

C6_Witness ==
    /\ Succeeded /\ ~cache_hit /\ ~args.no_cache /\ ~hist.tampered
    /\ WellFormed(hist.cache0) /\ cache # hist.cache0
    /\ hist.cache0.artifacts.findings # <<>>
    /\ ThisRunsEntry

\* ================================================ properties of the core
\* C7: every finding's evidence_score lies in 0..100.
C7_ScoreWithinBounds ==
    \A i \in 1..Len(findings) : 0 <= findings[i].evidence_score /\ findings[i].evidence_score <= 100

\* every increment applies and nothing is subtracted: the sum is 108
C7_Witness ==
    /\ pc = "core_done"
    /\ \E i \in 1..Len(findings) :
           /\ findings[i].evidence_score = 100
           /\ findings[i].score_reasoning =
                  <<"base+60", "source+15", "stack+8", "chain+7", "forward+10", "noauthz+8">>

\* C8: no two findings share (sink file, sink line, kind).
C8_FindingKeysDistinct ==
    \A i, j \in 1..Len(findings) :
        i # j => <<findings[i].sink.file, findings[i].sink.line, findings[i].kind>>
                 # <<findings[j].sink.file, findings[j].sink.line, findings[j].kind>>

\* two flows reached the same sink line with the same kind and one finding came out
C8_Witness ==
    /\ pc = "core_done"
    /\ Len(backward_flows) = 2 /\ Len(findings) = 1
    /\ FlowKey(backward_flows[1]) = FlowKey(backward_flows[2])
    /\ backward_flows[1].sink.category # backward_flows[2].sink.category

\* C9: the second run of the core on the same hits, files and parameters ends
\* with the findings and attack chains of the first.
C9_CoreRunsAgree ==
    (pc = "core_done" /\ run = 2 /\ first.rerun = "same") =>
        /\ findings = first.findings
        /\ attack_chains = first.attack_chains

\* C10: a graded score is Confirmed from 80 up, Likely from 60 to 79 and
\* Possible below 60; 59, 60, 79, 80 give Possible, Likely, Likely, Confirmed.
C10_StatusThresholds ==
    pc = "graded" =>
        /\ findings[1].evidence_score >= 80 => findings[1].status = "Confirmed"
        /\ findings[1].evidence_score \in 60..79 => findings[1].status = "Likely"
        /\ findings[1].evidence_score < 60 => findings[1].status = "Possible"
        /\ findings[1].evidence_score = 59 => findings[1].status = "Possible"
        /\ findings[1].evidence_score = 60 => findings[1].status = "Likely"
        /\ findings[1].evidence_score = 79 => findings[1].status = "Likely"
        /\ findings[1].evidence_score = 80 => findings[1].status = "Confirmed"

C10_Witness ==
    pc = "graded" /\ findings[1].evidence_score = 80 /\ findings[1].status = "Confirmed"

\* C11 (as written): through the whole core, Scenario B's finding scores
\* exactly 9 more than Scenario A's.
C11_ScenarioBAddsNine ==
    (pc = "core_done" /\ run = 2 /\ first.rerun = "B") =>
        /\ Len(findings) = 1 /\ Len(first.findings) = 1
        /\ findings[1].evidence_score = first.findings[1].evidence_score + 9

\* C11 (amended): Scenario B's finding scores +15 (source) -6 (one sanitizer)
\* +10 (the source's forward flow reaches the sink) = 19 more than Scenario
\* A's, up to the ceiling of 100.
C11_ScenarioBAddsNineteen ==
    (pc = "core_done" /\ run = 2 /\ first.rerun = "B") =>
        /\ Len(findings) = 1 /\ Len(first.findings) = 1
        /\ findings[1].evidence_score = Min(100, first.findings[1].evidence_score + 19)
        /\ findings[1].score_reasoning =
               SelectSeq(<<"base+60", "source+15", "stack+8", "chain+7", "forward+10",
                           "sanitizer-", "noauthz+8">>,
                         LAMBDA r : \/ r \in {"source+15", "forward+10", "sanitizer-"}
                                    \/ InSeq(r, first.findings[1].score_reasoning))

C11_Witness ==
    /\ pc = "core_done" /\ run = 2 /\ first.rerun = "B"
    /\ first.findings[1].evidence_score = 75
    /\ findings[1].evidence_score = 94
    /\ Len(findings[1].sanitizers) = 1
    /\ findings[1].source.line = findings[1].sink.line - 10

\* ======================================== properties of the attack chains
KindsOf(fl) == {fl[i].kind : i \in 1..Len(fl)}
NamesOf(chains) == [k \in 1..Len(chains) |-> chains[k].name]
HighAuthzGap(fl) ==
    \E i \in 1..Len(fl) : fl[i].authz_gap_hint = "missing" /\ fl[i].severity \in {"critical", "high"}

\* C12 (as written): findings of kinds exactly {path, cmd} give exactly the
\* write-then-execute chain; findings of kind query only give no chain.
C12_ScenarioC ==
    pc = "composed" =>
        /\ KindsOf(findings) = {"path", "cmd"} => NamesOf(attack_chains) = <<"write-then-execute">>
        /\ KindsOf(findings) = {"query"} => attack_chains = <<>>

\* C12 (amended): findings of kinds exactly {path, cmd} give the
\* write-then-execute chain and findings of kind query only give none of the
\* kind-combination chains; in both cases the privilege-bypass chain follows
\* exactly when some finding lacks authorization semantics in its sink file
\* and has severity critical or high.
C12_ScenarioCWithAuthzGap ==
    pc = "composed" =>
        /\ KindsOf(findings) = {"path", "cmd"} =>
               NamesOf(attack_chains) =
                   <<"write-then-execute">>
                   \o (IF HighAuthzGap(findings) THEN <<"privilege-bypass-to-sink">> ELSE <<>>)
        /\ KindsOf(findings) = {"query"} =>
               NamesOf(attack_chains) =
                   IF HighAuthzGap(findings) THEN <<"privilege-bypass-to-sink">> ELSE <<>>
        /\ \A k \in 1..Len(attack_chains) : attack_chains[k].id = k

C12_Witness ==
    /\ pc = "composed"
    /\ KindsOf(findings) = {"path", "cmd"}
    /\ NamesOf(attack_chains) = <<"write-then-execute", "privilege-bypass-to-sink">>

\* =============================================== properties of Scenario A
ScenarioADone == pc = "core_done" /\ run = 1 /\ ScenarioA
NoSinkIds == SinkIds(read_file_lines(fs, sink_hits[1].file), sink_hits[1]) = {}

\* C13 (as written): Scenario A yields one finding with score 68 when the sink
\* line gives no identifiers and 75 when it gives some, status Likely and
\* severity high.
C13_ScenarioA ==
    ScenarioADone =>
        /\ Len(findings) = 1
        /\ findings[1].evidence_score = IF NoSinkIds THEN 68 ELSE 75
        /\ findings[1].status = "Likely"
        /\ findings[1].severity = "high"

\* C13 (amended): Scenario A yields one finding of severity high, never
\* critical; without a call site of the sink's enclosing function its score is
\* 68 (no identifiers) or 75 and its status Likely; with such a call site the
\* score is 8 higher (76 or 83) and 83 is Confirmed.
C13_ScenarioAWithCallSites ==
    ScenarioADone =>
        /\ Len(findings) = 1
        /\ findings[1].severity = "high"
        /\ LET called == Len(findings[1].function_stack) > 1
               score == findings[1].evidence_score
           IN /\ score = 60 + 8 + (IF NoSinkIds THEN 0 ELSE 7) + (IF called THEN 8 ELSE 0)
              /\ ~called => score \in {68, 75} /\ findings[1].status = "Likely"
              /\ findings[1].status = IF score = 83 THEN "Confirmed" ELSE "Likely"

C13_Witness ==
    /\ ScenarioADone /\ NoSinkIds
    /\ Len(findings) = 1
    /\ Len(findings[1].function_stack) = 1
    /\ findings[1].evidence_score = 68 /\ findings[1].status = "Likely"

\* ============================================ more properties of a whole run
\* C14: a run that hits a cache entry as a run wrote it exits with the status
\* that run exited with.
C14_HitExitsLikeWriter ==
    (Finished /\ exit # Killed /\ cache_hit /\ hist.wIntact /\ hist.cacheWrites = 0) =>
        /\ exit \in {0, 2}
        /\ hist.wExit \in {0, 2} => exit = hist.wExit
        /\ exit = ExitStatus(hist.cache0.artifacts.findings)

C14_Witness ==
    /\ Finished /\ cache_hit /\ hist.wIntact /\ hist.cacheWrites = 0
    /\ hist.wExit = 2 /\ exit = 2
    /\ hist.scans = 0

\* ========================================== properties of unreadable files
Unreadable == {f \in FileNames : ~(fs[f].present /\ fs[f].readable)}
KindEnabled(s) == InSeq(kind_from_sink(s), args.kinds)

\* C15: files that cannot be read never abort the run: they are left out of
\* the file-state map, a sink hit or source hit in one gives no backward or
\* forward flow, no call site or authorization hit comes from one, every sink
\* hit of an enabled kind in a readable file still gets its flow, and the run
\* exits 0 or 2.
C15_UnreadableFilesAreSkipped ==
    pc = "core_exit" =>
        /\ exit \in {0, 2}
        /\ DOMAIN curr_state = {files[k] : k \in 1..Len(files)} \ Unreadable
        /\ \A i \in 1..Len(backward_flows) :
               /\ backward_flows[i].sink.file \notin Unreadable
               /\ \A j \in 1..Len(backward_flows[i].function_stack) :
                      backward_flows[i].function_stack[j].file \notin Unreadable
        /\ \A i \in 1..Len(forward_flows) : forward_flows[i].source.file \notin Unreadable
        /\ \A i \in 1..Len(authz_model.hits) : authz_model.hits[i].file \notin Unreadable
        /\ \A k \in 1..Len(sink_hits) :
               (sink_hits[k].file \notin Unreadable /\ KindEnabled(sink_hits[k])) =>
                   \E i \in 1..Len(backward_flows) : backward_flows[i].sink = sink_hits[k]

C15_Witness ==
    /\ pc = "core_exit" /\ exit = 2
    /\ fs["b.py"].present /\ "b.py" \in Unreadable
    /\ \E k \in 1..Len(sink_hits) : sink_hits[k].file = "b.py" /\ KindEnabled(sink_hits[k])
    /\ \E k \in 1..Len(entry_hits) : entry_hits[k].file = "b.py"
    /\ Len(findings) = 1 /\ findings[1].sink.file = "a.py"
    /\ forward_flows = <<>>

\* ================================================ properties of the score
FindingsBuilt == pc \in {"core_chains", "core_done", "core_exit"}
\* the flow a finding was built from: the first flow with the finding's key
FlowOf(f) ==
    backward_flows[CHOOSE i \in 1..Len(backward_flows) :
        /\ backward_flows[i].sink.file = f.sink.file
        /\ backward_flows[i].sink.line = f.sink.line
        /\ backward_flows[i].kind = f.kind
        /\ \A j \in 1..(i - 1) :
               ~(/\ backward_flows[j].sink.file = f.sink.file
                 /\ backward_flows[j].sink.line = f.sink.line
                 /\ backward_flows[j].kind = f.kind)]
AuthzHitsIn(file) == {i \in 1..Len(authz_model.hits) : authz_model.hits[i].file = file}
ForwardReaches(file, line) ==
    \E k \in 1..Len(forward_flows) : \E j \in 1..Len(forward_flows[k].candidate_sinks) :
        /\ forward_flows[k].candidate_sinks[j].file = file
        /\ forward_flows[k].candidate_sinks[j].line = line
ScoreSum(flow) ==
    (IF flow.severity = "high" THEN 60 ELSE 40)
    + (IF flow.source # NoHit THEN 15 ELSE 0)
    + (IF Len(flow.function_stack) > 1 THEN 8 ELSE 0)
    + (IF Len(flow.variable_chain) > 0 THEN 7 ELSE 0)
    + (IF ForwardReaches(flow.sink.file, flow.sink.line) THEN 10 ELSE 0)
    - Min(20, 6 * Len(flow.sanitizers))
    - Min(20, 5 * Len(flow.guards))
    + (IF AuthzHitsIn(flow.sink.file) = {} THEN 8 ELSE 0)

\* C16: every finding's evidence score is the sum 60/40 base, +15 source,
\* +8 stack of more than one frame, +7 variable chain, +10 forward
\* corroboration, -min(20, 6 per sanitizer), -min(20, 5 per guard), +8 no
\* authorization hit in the sink's file, clamped once to [0, 100].
C16_ScoreIsClampedSum ==
    FindingsBuilt =>
        \A k \in 1..Len(findings) :
            LET sum == ScoreSum(FlowOf(findings[k]))
            IN findings[k].evidence_score =
                   (IF sum < 0 THEN 0 ELSE IF sum > 100 THEN 100 ELSE sum)

C16_Witness ==
    /\ FindingsBuilt
    /\ \E k \in 1..Len(findings) :
           /\ ScoreSum(FlowOf(findings[k])) > 100
           /\ Len(findings[k].sanitizers) > 0
           /\ findings[k].evidence_score = 100

\* ============================================= properties of the severity
SeverityFor(sink_sev, kind, score) ==
    CASE sink_sev = "high" /\ kind \in {"cmd", "memory", "deser"} /\ score >= 85 -> "critical"
      [] sink_sev = "high" /\ ~(kind \in {"cmd", "memory", "deser"} /\ score >= 85) -> "high"
      [] sink_sev = "medium" -> "medium"
      [] OTHER -> "low"
\* the additions of the score, before any deduction
Additions(flow) ==
    (IF flow.severity = "high" THEN 60 ELSE 40)
    + (IF flow.source # NoHit THEN 15 ELSE 0)
    + (IF Len(flow.function_stack) > 1 THEN 8 ELSE 0)
    + (IF Len(flow.variable_chain) > 0 THEN 7 ELSE 0)
    + (IF ForwardReaches(flow.sink.file, flow.sink.line) THEN 10 ELSE 0)

\* C17: a finding's severity follows from the sink severity, the kind and the
\* finding's final evidence score: critical exactly for a high sink of kind
\* cmd, memory or deser with score >= 85, otherwise high stays high, medium
\* stays medium and anything else is low.
C17_SeverityFromFinalScore ==
    FindingsBuilt =>
        \A k \in 1..Len(findings) :
            LET flow == FlowOf(findings[k])
            IN /\ findings[k].severity =
                      SeverityFor(flow.severity, findings[k].kind, findings[k].evidence_score)
               /\ (findings[k].severity = "critical") <=>
                      (/\ flow.severity = "high"
                       /\ findings[k].kind \in {"cmd", "memory", "deser"}
                       /\ findings[k].evidence_score >= 85)

\* a high cmd sink whose sum passed 85 before the deductions and ended below
C17_Witness ==
    /\ FindingsBuilt
    /\ \E k \in 1..Len(findings) :
           /\ FlowOf(findings[k]).severity = "high" /\ findings[k].kind = "cmd"
           /\ Additions(FlowOf(findings[k])) >= 85
           /\ findings[k].evidence_score < 85
           /\ findings[k].severity = "high"

\* ======================================== properties of the source choice
Window == IF 80 * EffDepth(args) > 80 THEN 80 * EffDepth(args) ELSE 80
LineDist(i, line) ==
    IF entry_hits[i].line >= line THEN entry_hits[i].line - line ELSE line - entry_hits[i].line
InWindow(s) ==
    {i \in 1..Len(entry_hits) : entry_hits[i].file = s.file /\ LineDist(i, s.line) <= Window}
Nearest(s) ==
    CHOOSE i \in InWindow(s) :
        \A j \in InWindow(s) :
            \/ LineDist(i, s.line) < LineDist(j, s.line)
            \/ LineDist(i, s.line) = LineDist(j, s.line) /\ i <= j
HasWindowNote(flow) == InSeq("no_source_in_window", flow.notes)

\* C18: the source of a backward flow is the nearest source hit of the sink's
\* file within max(80, 80*depth) lines, ties to the earliest in the source-hit
\* order; without one it is the first source hit of the run; without any hit
\* there is no source. The note about the window is attached exactly when no
\* source hit lies in the window.
C18_SourceChoice ==
    pc = "source_picked" =>
        \A k \in 1..Len(backward_flows) :
            LET flow == backward_flows[k]
            IN IF InWindow(flow.sink) # {}
               THEN flow.source = entry_hits[Nearest(flow.sink)] /\ ~HasWindowNote(flow)
               ELSE IF Len(entry_hits) > 0
               THEN flow.source = entry_hits[1] /\ HasWindowNote(flow)
               ELSE flow.source = NoHit /\ HasWindowNote(flow)

\* lines 5 and 1 are both two lines from the sink on line 3; 5 came first
C18_Witness ==
    /\ pc = "source_picked" /\ EffDepth(args) = 1
    /\ Len(entry_hits) = 3
    /\ entry_hits[1] = Hit("a.py", 100, "http", "")
    /\ entry_hits[2] = Hit("a.py", 5, "http", "")
    /\ entry_hits[3] = Hit("a.py", 1, "env_cfg", "")
    /\ Len(backward_flows) = 1
    /\ backward_flows[1].sink.file = "a.py" /\ backward_flows[1].sink.line = 3
    /\ backward_flows[1].source = entry_hits[2]

\* ============================================ properties of findings order
RankOf(sev) ==
    CASE sev = "critical" -> 0 [] sev = "high" -> 1 [] sev = "medium" -> 2 [] OTHER -> 3
\* position in backward_flows of the flow a finding was built from
FlowPos(f) ==
    CHOOSE i \in 1..Len(backward_flows) :
        /\ backward_flows[i] = FlowOf(f)
        /\ \A j \in 1..(i - 1) : backward_flows[j] # FlowOf(f)

\* C19: findings come out by severity rank, then descending score, then
\* ascending identifier; the identifiers are 1..n, handed out in the order in
\* which the flows that survived the dedup were processed.
C19_FindingsSortedAndNumbered ==
    FindingsBuilt =>
        /\ {findings[k].id : k \in 1..Len(findings)} = 1..Len(findings)
        /\ \A k \in 1..(Len(findings) - 1) :
               LET a == findings[k]
                   b == findings[k + 1]
               IN \/ RankOf(a.severity) < RankOf(b.severity)
                  \/ /\ RankOf(a.severity) = RankOf(b.severity)
                     /\ a.evidence_score > b.evidence_score
                  \/ /\ RankOf(a.severity) = RankOf(b.severity)
                     /\ a.evidence_score = b.evidence_score
                     /\ a.id < b.id
        /\ \A i, j \in 1..Len(findings) :
               (findings[i].id < findings[j].id) <=>
                   (FlowPos(findings[i]) < FlowPos(findings[j]))

\* two findings of one severity: the second one processed has the higher score
C19_Witness ==
    /\ FindingsBuilt
    /\ Len(findings) = 2
    /\ findings[1].id = 2 /\ findings[2].id = 1
    /\ findings[1].severity = findings[2].severity
    /\ findings[1].evidence_score > findings[2].evidence_score

\* ========================================= properties of duplicate sink hits
\* the sink hits that share a finding's file, line and kind
GroupOf(f) ==
    {k \in 1..Len(sink_hits) :
        /\ sink_hits[k].file = f.sink.file
        /\ sink_hits[k].line = f.sink.line
        /\ kind_from_sink(sink_hits[k]) = f.kind}
HighFirst(k) == IF sink_hits[k].severity = "high" THEN 0 ELSE 1
\* first of the group in the order high-first, file, line; file and line are
\* shared, what is left is the order of the hits as given
FirstOfGroup(f) ==
    CHOOSE k \in GroupOf(f) :
        \A j \in GroupOf(f) :
            HighFirst(k) < HighFirst(j) \/ (HighFirst(k) = HighFirst(j) /\ k <= j)

\* C20: of the sink hits sharing file, line and kind, the finding is built
\* from the one first in the order high-first, file, line; when the group has
\* a high hit the finding is built from a high hit.
C20_FirstOfGroupSurvives ==
    FindingsBuilt =>
        \A n \in 1..Len(findings) :
            LET f == findings[n]
            IN /\ FlowOf(f).sink = sink_hits[FirstOfGroup(f)]
               /\ f.score_reasoning[1] =
                      (IF sink_hits[FirstOfGroup(f)].severity = "high" THEN "base+60" ELSE "base+40")
               /\ (\E k \in GroupOf(f) : sink_hits[k].severity = "high") =>
                      /\ FlowOf(f).severity = "high"
                      /\ f.severity \in {"critical", "high"}

\* a low hit and, after it, a high hit on the same line and of the same kind
C20_Witness ==
    /\ FindingsBuilt
    /\ Len(sink_hits) = 2
    /\ sink_hits[1] = Hit("a.py", 3, "exec", "low")
    /\ sink_hits[2] = Hit("a.py", 3, "eval", "high")
    /\ Len(findings) = 1
    /\ FlowOf(findings[1]).sink = sink_hits[2]
    /\ findings[1].severity \in {"critical", "high"}

\* ============================================= properties of enabled kinds
Enabled(kind) == \E i \in 1..Len(args.kinds) : args.kinds[i] = kind
BackwardBuilt == pc \in {"core_forward", "core_authz", "core_findings", "core_chains"}
ForwardBuilt == pc \in {"core_authz", "core_findings", "core_chains"}
CandidateSinks ==
    UNION {{forward_flows[k].candidate_sinks[j] : j \in 1..Len(forward_flows[k].candidate_sinks)} :
              k \in 1..Len(forward_flows)}

\* C21: every backward flow, every finding and every candidate sink of a
\* forward flow has an enabled kind; a sink hit whose category maps to a kind
\* that is not enabled (a category outside the table maps to "unknown") is
\* the sink of no flow and of no finding and is no candidate sink.
C21_OnlyEnabledKinds ==
    /\ BackwardBuilt =>
           /\ \A i \in 1..Len(backward_flows) : Enabled(backward_flows[i].kind)
           /\ \A k \in 1..Len(sink_hits) :
                  ~Enabled(SINK_TO_KIND(sink_hits[k].category)) =>
                      \A i \in 1..Len(backward_flows) : backward_flows[i].sink # sink_hits[k]
    /\ ForwardBuilt =>
           /\ \A c \in CandidateSinks : Enabled(SINK_TO_KIND(c.category))
           /\ \A k \in 1..Len(sink_hits) :
                  ~Enabled(SINK_TO_KIND(sink_hits[k].category)) => sink_hits[k] \notin CandidateSinks
    /\ pc = "core_chains" =>
           /\ \A n \in 1..Len(findings) : Enabled(findings[n].kind)
           /\ \A k \in 1..Len(sink_hits) :
                  ~Enabled(SINK_TO_KIND(sink_hits[k].category)) =>
                      \A n \in 1..Len(findings) : FlowOf(findings[n]).sink # sink_hits[k]

\* only cmd is enabled; the hit list holds a file write and a hit of a
\* category outside the table next to exec hits that do become findings
C21_Witness ==
    /\ pc = "core_chains"
    /\ args.kinds = <<"cmd">>
    /\ \E k \in 1..Len(sink_hits) : sink_hits[k].category = "file_write"
    /\ \E k \in 1..Len(sink_hits) : sink_hits[k].category = "custom"
    /\ Len(findings) >= 9
    /\ CandidateSinks # {}

\* ============================================= properties of forward flows
\* C22: in every forward flow no line of unknown_risky_calls is a line of a
\* classified sink hit of that file, whether listed in candidate_sinks or
\* only present in the sink hit list.
C22_RiskyCallsAreUnclassified ==
    ForwardBuilt =>
        \A k \in 1..Len(forward_flows) :
            \A j \in 1..Len(forward_flows[k].unknown_risky_calls) :
                LET r == forward_flows[k].unknown_risky_calls[j]
                IN \A i \in 1..Len(sink_hits) :
                       ~(sink_hits[i].file = r.file /\ sink_hits[i].line = r.line)

ForwardWindow == IF 120 * EffDepth(args) > 80 THEN 120 * EffDepth(args) ELSE 80
FirstOfCategory(e) ==
    \E p \in 1..Len(entry_hits) :
        /\ entry_hits[p] = e
        /\ \A q \in 1..(p - 1) : entry_hits[q].category # e.category
InForwardWindow(src, x) ==
    x.file = src.file /\ src.line <= x.line /\ x.line <= src.line + ForwardWindow

\* C23: at most one forward flow per source category, built from the first
\* source hit of the category; each flow has at most 8 candidate sinks and at
\* most 8 risky calls, all in the source's file between the source line and
\* source line + max(80, 120*depth).
C23_ForwardFlowShape ==
    ForwardBuilt =>
        /\ \A i, j \in 1..Len(forward_flows) :
               i # j => forward_flows[i].source.category # forward_flows[j].source.category
        /\ \A k \in 1..Len(forward_flows) :
               LET f == forward_flows[k]
               IN /\ FirstOfCategory(f.source)
                  /\ Len(f.candidate_sinks) <= 8
                  /\ Len(f.unknown_risky_calls) <= 8
                  /\ \A j \in 1..Len(f.candidate_sinks) : InForwardWindow(f.source, f.candidate_sinks[j])
                  /\ \A j \in 1..Len(f.unknown_risky_calls) :
                         InForwardWindow(f.source, f.unknown_risky_calls[j])

\* two sources of one category, more than eight sink hits and risky lines
\* after the first, and a sink hit on line 130 beyond the window of depth 1
C23_Witness ==
    /\ ForwardBuilt /\ EffDepth(args) = 1 /\ args.kinds = DEFAULT_KINDS
    /\ entry_hits = <<Hit("a.py", 1, "env_cfg", ""), Hit("a.py", 5, "env_cfg", "")>>
    /\ \E k \in 1..Len(sink_hits) : sink_hits[k].line = 130
    /\ Len(forward_flows) = 1
    /\ forward_flows[1].source.line = 1
    /\ Len(forward_flows[1].candidate_sinks) = 8
    /\ Len(forward_flows[1].unknown_risky_calls) = 8

\* ============================================= properties of attack chains
WriteThenExecute ==
    "path" \in KindsOf(findings) /\ KindsOf(findings) \cap {"cmd", "deser", "template"} # {}
PrivilegeBypass ==
    \E i \in 1..Len(findings) :
        findings[i].authz_gap_hint = "missing" /\ findings[i].severity \in {"critical", "high"}
SsrfToBypass ==
    "ssrf" \in KindsOf(findings) /\ KindsOf(findings) \cap {"authz", "cmd"} # {}

\* C24: the chains are exactly those of the three rules whose condition
\* holds, each once, in the order write-then-execute, privilege-bypass-to-sink,
\* ssrf-to-bypass; each rule fires on its own condition alone.
C24_ChainsAreTheRulesThatHold ==
    pc = "composed" =>
        /\ NamesOf(attack_chains) =
               (IF WriteThenExecute THEN <<"write-then-execute">> ELSE <<>>)
               \o (IF PrivilegeBypass THEN <<"privilege-bypass-to-sink">> ELSE <<>>)
               \o (IF SsrfToBypass THEN <<"ssrf-to-bypass">> ELSE <<>>)
        /\ \A i, j \in 1..Len(attack_chains) :
               i # j => attack_chains[i].name # attack_chains[j].name

\* the three rules fire together
C24_Witness ==
    /\ pc = "composed"
    /\ KindsOf(findings) = {"path", "cmd", "ssrf"}
    /\ NamesOf(attack_chains) =
           <<"write-then-execute", "privilege-bypass-to-sink", "ssrf-to-bypass">>

\* ======================================= properties of the source of a flow
\* C25: a backward flow has no source exactly when the run has no source hit;
\* with any source hit every flow has a source, possibly of another file,
\* and every finding gets the +15 source bonus.
C25_SourceUnlessNoHits ==
    /\ BackwardBuilt =>
           \A i \in 1..Len(backward_flows) :
               (backward_flows[i].source = NoHit) <=> (Len(entry_hits) = 0)
    /\ pc = "core_chains" =>
           \A n \in 1..Len(findings) :
               /\ InSeq("source+15", findings[n].score_reasoning) <=> (Len(entry_hits) > 0)
               /\ InSeq("source+0", findings[n].score_reasoning) <=> (Len(entry_hits) = 0)
               /\ (findings[n].source.file = "") <=> (Len(entry_hits) = 0)

\* the only source hit is in b.py; a finding of a.py has it as its source
C25_Witness ==
    /\ pc = "core_chains"
    /\ entry_hits = <<Hit("b.py", 1, "http", "")>>
    /\ \E n \in 1..Len(findings) :
           /\ findings[n].sink.file = "a.py"
           /\ findings[n].source.file = "b.py"
           /\ InSeq("source+15", findings[n].score_reasoning)

\* ============================== properties of exit status and sink severity
\* C26: a finding built from a sink that is not high never has severity high
\* or critical, so the run exits 2 exactly when some finding built from a high
\* sink has score >= 80; a medium sink can be Confirmed and the run exits 0.
C26_ExitTwoNeedsHighSink ==
    pc = "core_exit" =>
        /\ \A n \in 1..Len(findings) :
               FlowOf(findings[n]).sink.severity # "high" =>
                   findings[n].severity \notin {"critical", "high"}
        /\ (exit = 2) <=>
               \E n \in 1..Len(findings) :
                   /\ FlowOf(findings[n]).sink.severity = "high"
                   /\ findings[n].evidence_score >= 80
        /\ exit \in {0, 2}

\* a medium sink with score >= 80: Confirmed, still medium, exit 0
C26_Witness ==
    /\ pc = "core_exit" /\ exit = 0
    /\ \E n \in 1..Len(findings) :
           /\ FlowOf(findings[n]).sink.severity = "medium"
           /\ findings[n].evidence_score >= 80
           /\ findings[n].status = "Confirmed"
           /\ findings[n].severity = "medium"

\* C27: every finding of severity critical has status Confirmed.
C27_CriticalIsConfirmed ==
    FindingsBuilt =>
        \A n \in 1..Len(findings) :
            findings[n].severity = "critical" => findings[n].status = "Confirmed"

\* a critical finding next to a high finding that is only Likely
C27_Witness ==
    /\ FindingsBuilt
    /\ \E n \in 1..Len(findings) :
           findings[n].severity = "critical" /\ findings[n].status = "Confirmed"
    /\ \E n \in 1..Len(findings) :
           /\ findings[n].severity = "high" /\ findings[n].kind = "cmd"
           /\ findings[n].status = "Likely"

\* ================================================ properties of a cache hit
HitRunDone == Finished /\ cache_hit /\ exit \in {0, 2} /\ ~hist.tampered

\* C28: after a cache-hit run each of the nine artifacts holds the text the
\* cache entry has for it, whatever mix an interrupted run left behind, and
\* cache.json is as it was when the run started.
C28_HitRestoresArtifacts ==
    HitRunDone =>
        /\ \A a \in ArtifactNames : out[a] = hist.cache0.artifacts.texts[a]
        /\ cache = hist.cache0

\* the run before was killed after it had rewritten some of the artifacts
C28_Witness ==
    /\ HitRunDone /\ run = 3
    /\ hist.prevExit = Killed
    /\ \E a \in ArtifactNames : hist.out0[a] = Text(2, a)
    /\ \E a \in ArtifactNames : hist.out0[a] = Text(1, a)
    /\ \A a \in ArtifactNames : out[a] = Text(1, a)
    /\ cache = hist.cache0 /\ cache.shape = "dict"

\* ============================================ properties of a --no-cache run
NoCacheRun == run > 0 /\ args.no_cache

\* C29: a --no-cache run never takes the hit path and never fails on what
\* cache.json holds, it recomputes everything, and cache.json stays as it was
\* when the run started while the nine artifacts are rewritten.
C29_NoCacheLeavesCacheAlone ==
    NoCacheRun =>
        /\ ~cache_hit
        /\ hist.cacheWrites = 0
        /\ ~hist.tampered => cache = hist.cache0
        /\ (Finished /\ exit = 1) => hist.scanFailed
        /\ (Finished /\ exit \in {0, 2}) =>
               /\ hist.scans = 2 /\ hist.builds > 0
               /\ \A a \in ArtifactNames : out[a] = Text(run, a)

\* the second run is --no-cache over the entry and artifacts of the first
C29_Witness ==
    /\ NoCacheRun /\ Finished /\ exit \in {0, 2} /\ run = 2
    /\ ~hist.tampered
    /\ hist.cache0.shape = "dict" /\ cache = hist.cache0
    /\ \A a \in ArtifactNames :
           /\ hist.out0[a] = Text(1, a)
           /\ cache.artifacts.texts[a] = Text(1, a)
           /\ out[a] = Text(2, a)

\* ======================================== properties of the authorization hint
\* C30: a finding has the 'authorization likely missing' hint exactly when
\* the +8 no-authorization rule is in its score_reasoning, which is exactly
\* when the authorization model has no hit in the sink's file.
C30_HintIffBonusIffNoAuthzHits ==
    FindingsBuilt =>
        \A n \in 1..Len(findings) :
            LET f == findings[n]
                bonus == \E j \in 1..Len(f.score_reasoning) : f.score_reasoning[j] = "noauthz+8"
            IN /\ (f.authz_gap_hint = "missing") <=> bonus
               /\ bonus <=> (AuthzHitsIn(f.sink.file) = {})
               /\ f.authz_gap_hint \in {"missing", "partial"}

\* one finding in a file without authorization hits, one in a file with
C30_Witness ==
    /\ FindingsBuilt /\ Len(findings) = 2
    /\ \E n \in 1..2 :
           /\ findings[n].authz_gap_hint = "missing"
           /\ AuthzHitsIn(findings[n].sink.file) = {}
           /\ InSeq("noauthz+8", findings[n].score_reasoning)
    /\ \E n \in 1..2 :
           /\ findings[n].authz_gap_hint = "partial"
           /\ AuthzHitsIn(findings[n].sink.file) # {}
           /\ ~InSeq("noauthz+8", findings[n].score_reasoning)

====
